---- MODULE Spec2Model ----
(***************************************************************************)
(* Spatial layout core of the interior-design pipeline.                    *)
(*                                                                         *)
(*   Spec     RealConstraintSolver.solve_layout (layout-worker /           *)
(*            constraint_solver.py) followed by the validator's geometry   *)
(*            and collision check (validate-worker / main.py) on the       *)
(*            placements the solver returned.                              *)
(*   JobSpec  generate_layouts (layout-worker / main.py): one layout job   *)
(*            from intake to the published result.                         *)
(*   ValSpec, WorkerSpec, ConcSpec  validate_layout and the two job        *)
(*            handlers, alone and two at a time.                           *)
(*   CallSpec, ObjSpec  single calls of the pure functions.                *)
(*   S1Spec, PairSpec, ShiftSpec  solve_layout on the 5 x 4 m room, on     *)
(*            functional pairs and on rooms away from the origin.          *)
(*                                                                         *)
(* Units.  The solver works in whole centimetres and in grid cells of      *)
(* GridResolutionCm.  Room bounds, door positions and wall end points are  *)
(* metres in the source; here they are whole millimetres, so that          *)
(* int(v * 100) is a real truncation.  The validator works in metres; here *)
(* its coordinates are whole millimetres, so that half of an odd number of *)
(* centimetres is exact.  Floating-point rounding noise (1e-16 m) is not   *)
(* modelled.                                                               *)
(***************************************************************************)
EXTENDS Integers, Sequences, FiniteSets, TLC

VARIABLES
    room,        \* RoomConstraints given to solve_layout
    items,       \* furniture_items given to solve_layout (a list)
    objectives,  \* objectives given to solve_layout, weights in tenths
    pc,          \* position of the solver run: ready, solved, validated
    status,      \* status returned by CpSolver.Solve
    value,       \* solver.Value of x, y, rot, placed of every item
    solutions,   \* the list solve_layout returns
    report,      \* check_collisions of the validator on that list
    job,         \* job_data of the layout job
    jpc,         \* position of generate_layouts / layout_job_handler
    progress,    \* stream job_progress:<job_id>, the progress values in order
    catalog,     \* furniture_catalog of the job
    variants,    \* layout_solutions of the job
    result,      \* LayoutResult / ValidationResult the job returned
    published,   \* records published on layout.results / validation.results
    furniture_geometries,   \* create_furniture_geometries of the validation job
    collision_results,      \* check_collisions of the validation job
    clearance_results,      \* validate_clearances of the validation job
    accessibility_results,  \* analyze_accessibility of the validation job
    heatmap_data,           \* generate_navigation_heatmap of the validation job
    call,        \* one call of a pure function: its arguments and its return
    handlers,    \* the job handlers running concurrently in one worker
    streams,     \* Redis: stream key (job id) -> progress values in order
    outbox       \* NATS: records published by the concurrent handlers

solverVars == <<room, items, objectives, pc, status, value, solutions, report>>
jobVars == <<job, jpc, progress, catalog, variants, result, published>>
valVars == <<furniture_geometries, collision_results, clearance_results,
             accessibility_results, heatmap_data>>
concVars == <<handlers, streams, outbox>>
vars == <<room, items, objectives, pc, status, value, solutions, report,
          job, jpc, progress, catalog, variants, result, published,
          furniture_geometries, collision_results, clearance_results,
          accessibility_results, heatmap_data, call, handlers, streams, outbox>>

(***************************************************************************)
(* Program constants.                                                      *)
(***************************************************************************)
GridResolutionCm == 2
DefaultClearanceCm == 40
DefaultDoorClearanceCm == 80
DefaultWindowAccessCm == 60
TallFurnitureCm == 100
AuxVarMax == 1000
TvDistVarMax == 2000
DeskChairOptimalCm == 70
DeskChairToleranceGrid == 10
TvMinDistCm == 200
TvMaxDistCm == 400
ConfidencePct == 90
DefaultWallThicknessMm == 150

(***************************************************************************)
(* Bounds of the model.                                                    *)
(***************************************************************************)
MaxRoomWidthCm == 46
MinRoomWidthCm == 12
LongRoomWidthCm == 90
MaxRoomHeightCm == 4
MaxItemWidthCm == 5
MaxItemDepthCm == 3

NoAll == -1      \* clearances has no 'all' key

(***************************************************************************)
(* Arithmetic helpers.                                                     *)
(***************************************************************************)
Abs(n) == IF n < 0 THEN -n ELSE n
Max2(a, b) == IF a >= b THEN a ELSE b
Min2(a, b) == IF a <= b THEN a ELSE b

\* int(v * 100) for v in metres, v given in millimetres: truncation toward 0
IntCm(mm) == IF mm >= 0 THEN mm \div 10 ELSE -((-mm) \div 10)

\* n // self.grid_resolution_cm (Python floor division)
ToGrid(cm) == cm \div GridResolutionCm

(***************************************************************************)
(* Substring tests on item.name.lower() over the names of the inputs.      *)
(***************************************************************************)
NameWords(name) ==
    CASE name = "3-Seat Sofa"   -> {"sofa"}
      [] name = "Armchair"      -> {"chair"}
      [] name = "Coffee Table"  -> {"coffee"}
      [] name = "Side Table"    -> {}
      [] name = "TV Stand"      -> {"tv"}
      [] name = "Bookshelf"     -> {}
      [] name = "Desk"          -> {"desk"}
      [] name = "Office Chair"  -> {"chair"}
      [] OTHER                  -> {}

(***************************************************************************)
(* solve_layout: grid of the room and the decision variables.              *)
(***************************************************************************)
RoomWidthCm(r) == IntCm(r.max_x - r.min_x)
RoomHeightCm(r) == IntCm(r.max_y - r.min_y)
GridWidth(r) == ToGrid(RoomWidthCm(r))
GridHeight(r) == ToGrid(RoomHeightCm(r))

\* Values of (x, y, rot, placed) of one item.  The variables of an item that
\* is not placed are read by no enforced constraint and not by
\* _extract_solution; one representative stands for all their values.
PlacedValues(r) ==
    [x : 0 .. GridWidth(r) - 1, y : 0 .. GridHeight(r) - 1,
     rot : 0 .. 3, placed : {1}]
UnplacedValues(r) ==
    [x : 0 .. Min2(0, GridWidth(r) - 1), y : 0 .. Min2(0, GridHeight(r) - 1),
     rot : {0}, placed : {0}]
VarValues(r) == PlacedValues(r) \cup UnplacedValues(r)

RotatedDimensions(item, rotation) ==
    IF rotation = 0 \/ rotation = 2
    THEN <<item.width_cm, item.depth_cm>>
    ELSE <<item.depth_cm, item.width_cm>>

ClearanceOf(item) ==
    IF item.clearance_all = NoAll THEN DefaultClearanceCm ELSE item.clearance_all

Manhattan(x1, y1, x2, y2) == Abs(x1 - x2) + Abs(y1 - y2)

\* NewIntVar(0, hi) for abs_x, abs_y and their sum: the three values must lie
\* in the variables' domains whether or not the items are placed
AuxInDomain(x1, y1, x2, y2, hi) ==
    /\ Abs(x1 - x2) <= AuxVarMax
    /\ Abs(y1 - y2) <= AuxVarMax
    /\ Manhattan(x1, y1, x2, y2) <= hi

BoundaryOK(item, v, gw, gh) ==
    LET width_grid == ToGrid(item.width_cm)
        depth_grid == ToGrid(item.depth_cm)
    IN  v.placed = 1 =>
          /\ v.rot \in {0, 2} => (v.x + width_grid <= gw /\ v.y + depth_grid <= gh)
          /\ v.rot \in {1, 3} => (v.x + depth_grid <= gw /\ v.y + width_grid <= gh)

CollisionOK(item1, v1, item2, v2) ==
    LET d1 == RotatedDimensions(item1, v1.rot)
        d2 == RotatedDimensions(item2, v2.rot)
        w1_grid == ToGrid(d1[1])
        h1_grid == ToGrid(d1[2])
        w2_grid == ToGrid(d2[1])
        h2_grid == ToGrid(d2[2])
    IN  (v1.placed = 1 /\ v2.placed = 1) =>
          \/ v1.x + w1_grid <= v2.x
          \/ v2.x + w2_grid <= v1.x
          \/ v1.y + h1_grid <= v2.y
          \/ v2.y + h2_grid <= v1.y

ClearanceOK(item1, v1, item2, v2) ==
    LET min_clearance == Max2(ClearanceOf(item1), ClearanceOf(item2))
        clearance_grid == ToGrid(min_clearance)
    IN  /\ AuxInDomain(v1.x, v1.y, v2.x, v2.y, AuxVarMax)
        /\ (v1.placed = 1 /\ v2.placed = 1) =>
              Manhattan(v1.x, v1.y, v2.x, v2.y) >= clearance_grid

DoorOK(door, min_door_clearance_cm, v) ==
    LET door_x_grid == ToGrid(IntCm(door.x))
        door_y_grid == ToGrid(IntCm(door.y))
        clearance_grid == ToGrid(min_door_clearance_cm)
    IN  /\ AuxInDomain(v.x, v.y, door_x_grid, door_y_grid, AuxVarMax)
        /\ v.placed = 1 =>
              Manhattan(v.x, v.y, door_x_grid, door_y_grid) >= clearance_grid

WindowOK(window, min_window_access_cm, item, v) ==
    LET window_x_grid == ToGrid(IntCm(window.x))
        window_y_grid == ToGrid(IntCm(window.y))
        access_grid == ToGrid(min_window_access_cm)
    IN  item.height_cm > TallFurnitureCm =>
          /\ AuxInDomain(v.x, v.y, window_x_grid, window_y_grid, AuxVarMax)
          /\ v.placed = 1 =>
                Manhattan(v.x, v.y, window_x_grid, window_y_grid) >= access_grid

\* _add_sofa_table_constraint adds nothing to the model
SofaTableOK(sofa, vs, table, vt) == TRUE

DeskChairOK(desk, vd, chair, vc) ==
    LET optimal_dist_grid == ToGrid(DeskChairOptimalCm)
        distance == Manhattan(vd.x, vd.y, vc.x, vc.y)
    IN  /\ AuxInDomain(vd.x, vd.y, vc.x, vc.y, AuxVarMax)
        /\ (vd.placed = 1 /\ vc.placed = 1) =>
              /\ distance >= optimal_dist_grid - DeskChairToleranceGrid
              /\ distance <= optimal_dist_grid + DeskChairToleranceGrid

TvViewingOK(tv, vt, sofa, vs) ==
    LET min_dist_grid == ToGrid(TvMinDistCm)
        max_dist_grid == ToGrid(TvMaxDistCm)
        distance == Manhattan(vt.x, vt.y, vs.x, vs.y)
    IN  /\ AuxInDomain(vt.x, vt.y, vs.x, vs.y, TvDistVarMax)
        /\ (vt.placed = 1 /\ vs.placed = 1) =>
              /\ distance >= min_dist_grid
              /\ distance <= max_dist_grid

\* _add_functional_constraints between the items at two list positions, in
\* either order of the pair
FunctionalOK(a, va, b, vb) ==
    /\ ("sofa" \in NameWords(a.name) /\ "coffee" \in NameWords(b.name))
          => SofaTableOK(a, va, b, vb)
    /\ ("desk" \in NameWords(a.name) /\ "chair" \in NameWords(b.name))
          => DeskChairOK(a, va, b, vb)
    /\ ("tv" \in NameWords(a.name) /\ "sofa" \in NameWords(b.name))
          => TvViewingOK(a, va, b, vb)

\* the constraints that mention one item only
SingleOK(r, item, v) ==
    /\ BoundaryOK(item, v, GridWidth(r), GridHeight(r))
    /\ \A k \in 1 .. Len(r.doors) : DoorOK(r.doors[k], r.min_door_clearance_cm, v)
    /\ \A k \in 1 .. Len(r.windows) :
          WindowOK(r.windows[k], r.min_window_access_cm, item, v)

\* the constraints between the items at list positions i < j
PairOK(item1, v1, item2, v2) ==
    /\ CollisionOK(item1, v1, item2, v2)
    /\ ClearanceOK(item1, v1, item2, v2)
    /\ FunctionalOK(item1, v1, item2, v2)
    /\ FunctionalOK(item2, v2, item1, v1)

\* objectives.get(key, 0): a weight that is absent reads as 0
NoObjectives ==
    [placement_coverage |-> 0, budget_optimization |-> 0, flow_optimization |-> 0]

\* _add_objectives: room_center = (bounds["max"] * 50) // grid_resolution_cm,
\* the floor of max / 0.04 m
RoomCenterX(r) == r.max_x \div (20 * GridResolutionCm)
RoomCenterY(r) == r.max_y \div (20 * GridResolutionCm)

\* _add_objectives: center_dist, abs_x and abs_y of every item exist when
\* the flow weight is positive, and must lie in their domains
CenterOK(r, objs, v) ==
    objs.flow_optimization > 0 =>
      AuxInDomain(v.x, v.y, RoomCenterX(r), RoomCenterY(r), TvDistVarMax)

\* the value of the expression given to Maximize for the assignment a:
\* int(coverage * 1000), int(budget) and int(flow * 100) are the factors
Objective(r, its, objs, a) ==
    LET Placed[k \in 0 .. Len(its)] ==
          IF k = 0 THEN 0 ELSE Placed[k - 1] + a[k].placed
        Cost[k \in 0 .. Len(its)] ==
          IF k = 0 THEN 0 ELSE Cost[k - 1] + a[k].placed * its[k].price_cents
        Flow[k \in 0 .. Len(its)] ==
          IF k = 0 THEN 0
          ELSE Flow[k - 1]
                 + Manhattan(a[k].x, a[k].y, RoomCenterX(r), RoomCenterY(r))
                     * a[k].placed
    IN  (IF objs.placement_coverage > 0
         THEN Placed[Len(its)] * (objs.placement_coverage * 100) ELSE 0)
        + (IF objs.budget_optimization > 0
           THEN (0 - Cost[Len(its)]) * (objs.budget_optimization \div 10) ELSE 0)
        + (IF objs.flow_optimization > 0
           THEN Flow[Len(its)] * (objs.flow_optimization * 10) ELSE 0)

\* an item that is not placed still has x and y: some cell of the grid
\* must keep the door, window and centre distances in their domains
UnplacedOK(r, item, objs) ==
    \E x \in 0 .. GridWidth(r) - 1, y \in 0 .. GridHeight(r) - 1 :
       LET v == [x |-> x, y |-> y, rot |-> 0, placed |-> 0]
       IN  SingleOK(r, item, v) /\ CenterOK(r, objs, v)

\* the assignments of the first k items that satisfy the model
RECURSIVE Feasible(_, _, _, _)
Feasible(r, its, objs, k) ==
    IF k = 0 THEN {<<>>}
    ELSE LET cand == {v \in PlacedValues(r) :
                        SingleOK(r, its[k], v) /\ CenterOK(r, objs, v)}
                     \cup {v \in UnplacedValues(r) : UnplacedOK(r, its[k], objs)}
         IN  {Append(a, v) : <<a, v>> \in
                {p \in Feasible(r, its, objs, k - 1) \X cand :
                    \A i \in 1 .. k - 1 : PairOK(its[i], p[1][i], its[k], p[2])}}

\* an extraction that also emits the items the solver left out
ExtractSolutionAll(its, val) ==
    [k \in 1 .. Len(its) |->
        [furniture_id |-> its[k].id,
         x_cm |-> val[k].x * GridResolutionCm,
         y_cm |-> val[k].y * GridResolutionCm,
         rotation_deg |-> val[k].rot * 90,
         confidence |-> ConfidencePct]]

ExtractSolution(its, val) ==
    LET F[k \in 0 .. Len(its)] ==
          IF k = 0 THEN <<>>
          ELSE IF val[k].placed = 1
               THEN Append(F[k - 1],
                           [furniture_id |-> its[k].id,
                            x_cm |-> val[k].x * GridResolutionCm,
                            y_cm |-> val[k].y * GridResolutionCm,
                            rotation_deg |-> val[k].rot * 90,
                            confidence |-> ConfidencePct])
               ELSE F[k - 1]
    IN  F[Len(its)]

(***************************************************************************)
(* solve_layout as a whole: build the model, Solve, extract.               *)
(***************************************************************************)
\* what CpSolver.Solve can answer: OPTIMAL with an assignment of the
\* greatest objective value, FEASIBLE with any assignment satisfying the
\* model (the search stops at the time limit with the solution it has),
\* or no assignment
NoValue == <<>>

SolveOutcomes(r, its, objs) ==
    LET feas == Feasible(r, its, objs, Len(its))
        scores == {Objective(r, its, objs, a) : a \in feas}
        best == CHOOSE m \in scores : \A n \in scores : n <= m
    IN  {[status |-> "OPTIMAL", value |-> a] :
            a \in {b \in feas : Objective(r, its, objs, b) = best}}
        \cup {[status |-> "FEASIBLE", value |-> a] : a \in feas}
        \cup {[status |-> "UNKNOWN", value |-> NoValue]}
        \cup (IF feas = {} THEN {[status |-> "INFEASIBLE", value |-> NoValue]}
              ELSE {})

SolveLayoutResult(its, outcome) ==
    IF outcome.status = "OPTIMAL" \/ outcome.status = "FEASIBLE"
    THEN ExtractSolution(its, outcome.value)
    ELSE <<>>

(***************************************************************************)
(* Hand-over of a solver result to the validator: metres, degrees, the     *)
(* item's name and dimensions attached.                                    *)
(***************************************************************************)
ItemById(its, id) == its[CHOOSE k \in 1 .. Len(its) : its[k].id = id]

ToValidatorPlacement(its, sol) ==
    LET item == ItemById(its, sol.furniture_id)
    IN  [furniture_id |-> sol.furniture_id,
         furniture_name |-> item.name,
         x |-> sol.x_cm * 10,
         y |-> sol.y_cm * 10,
         rotation |-> sol.rotation_deg,
         width |-> item.width_cm * 10,
         depth |-> item.depth_cm * 10]

ToValidatorPlacements(its, sols) ==
    [k \in 1 .. Len(sols) |-> ToValidatorPlacement(its, sols[k])]

(***************************************************************************)
(* Validator geometry (millimetres).  A rectangle is [x1, y1, x2, y2].     *)
(***************************************************************************)
Rect(x1, y1, x2, y2) == [x1 |-> x1, y1 |-> y1, x2 |-> x2, y2 |-> y2]

\* Polygon.intersects: the closed sets share a point
Intersects(a, b) ==
    a.x1 <= b.x2 /\ b.x1 <= a.x2 /\ a.y1 <= b.y2 /\ b.y1 <= a.y2

\* Polygon.intersection(...).area, in square millimetres
IntersectionArea(a, b) ==
    Max2(0, Min2(a.x2, b.x2) - Max2(a.x1, b.x1))
      * Max2(0, Min2(a.y2, b.y2) - Max2(a.y1, b.y1))

\* Polygon.contains for rectangles of positive area
Contains(outer, inner) ==
    outer.x1 <= inner.x1 /\ inner.x2 <= outer.x2
      /\ outer.y1 <= inner.y1 /\ inner.y2 <= outer.y2

\* squared distance between two rectangles (0 when they touch or overlap)
GapSq(a, b) ==
    LET dx == Max2(0, Max2(a.x1 - b.x2, b.x1 - a.x2))
        dy == Max2(0, Max2(a.y1 - b.y2, b.y1 - a.y2))
    IN  dx * dx + dy * dy

\* parse_room_geometry: the room polygon from bounds
RoomPolygon(r) == Rect(r.min_x, r.min_y, r.max_x, r.max_y)

\* parse_room_geometry: a wall is its line buffered by thickness / 2; an
\* axis-aligned rectangle meets it iff its distance to the line is at most
\* that radius.  2 * distance <= thickness avoids halving an odd thickness.
WallLine(wall) ==
    Rect(Min2(wall.x1, wall.x2), Min2(wall.y1, wall.y2),
         Max2(wall.x1, wall.x2), Max2(wall.y1, wall.y2))
IntersectsWall(geom, wall) ==
    4 * GapSq(geom, WallLine(wall)) <= wall.thickness * wall.thickness

\* create_furniture_geometries: a rectangle centred at (x, y), its corner
\* points turned by the rotation (multiples of 90 degrees only)
\* dict.get(key, default)
Get(d, key, default) == IF key \in DOMAIN d THEN d[key] ELSE default

NotANumber == -999999     \* a value that is no number (a string, null)
DefaultDimensionMm == 1000
DefaultFurnitureClearanceMm == 400

FurnitureGeometry(p) ==
    LET x == Get(p, "x", 0)
        y == Get(p, "y", 0)
        rotation == Get(p, "rotation", 0)
        half_width == Get(p, "width", DefaultDimensionMm) \div 2
        half_depth == Get(p, "depth", DefaultDimensionMm) \div 2
        hx == IF rotation = 90 \/ rotation = 270 THEN half_depth ELSE half_width
        hy == IF rotation = 90 \/ rotation = 270 THEN half_width ELSE half_depth
    IN  [id |-> Get(p, "furniture_id", "unknown"),
         name |-> Get(p, "furniture_name", "Unknown"),
         geometry |-> Rect(x - hx, y - hy, x + hx, y + hy),
         clearance_all |-> Get(p, "clearance_all", DefaultFurnitureClearanceMm)]

\* the arithmetic of create_furniture_geometries raises TypeError on a value
\* that is no number
RaisesTypeError(p) ==
    \E key \in {"x", "y", "rotation", "width", "depth"} :
       key \in DOMAIN p /\ p[key] = NotANumber

CreateFurnitureGeometries(placements) ==
    [k \in 1 .. Len(placements) |-> FurnitureGeometry(placements[k])]

HighSeverityMm2 == 100000

\* the furniture-to-furniture loop of check_collisions: pairs i < j in order
CollisionPairs(geoms) ==
    LET n == Len(geoms)
        F[k \in 0 .. n * n] ==
          IF k = 0 THEN <<>>
          ELSE LET i == (k - 1) \div n + 1
                   j == ((k - 1) % n) + 1
               IN  IF i < j /\ Intersects(geoms[i].geometry, geoms[j].geometry)
                   THEN LET overlap_area ==
                              IntersectionArea(geoms[i].geometry, geoms[j].geometry)
                        IN  Append(F[k - 1],
                              [furniture_1 |-> geoms[i].id,
                               furniture_2 |-> geoms[j].id,
                               overlap_area |-> overlap_area,
                               severity |-> IF overlap_area > HighSeverityMm2
                                            THEN "high" ELSE "medium"])
                   ELSE F[k - 1]
    IN  F[n * n]

\* the room-boundary loop of check_collisions
BoundaryViolations(geoms, r) ==
    LET F[k \in 0 .. Len(geoms)] ==
          IF k = 0 THEN <<>>
          ELSE IF ~Contains(RoomPolygon(r), geoms[k].geometry)
               THEN Append(F[k - 1],
                      [name |-> geoms[k].name,
                       text |-> IF Intersects(geoms[k].geometry, RoomPolygon(r))
                                THEN "extends outside room boundary"
                                ELSE "is completely outside room"])
               ELSE F[k - 1]
    IN  F[Len(geoms)]

\* the wall loop of check_collisions: furniture outer, walls inner
WallViolations(geoms, r) ==
    LET n == Len(geoms)
        m == Len(r.walls)
        F[k \in 0 .. n * m] ==
          IF k = 0 THEN <<>>
          ELSE LET i == (k - 1) \div m + 1
                   j == ((k - 1) % m) + 1
               IN  IF IntersectsWall(geoms[i].geometry, r.walls[j])
                   THEN Append(F[k - 1],
                          [name |-> geoms[i].name, text |-> "intersects with wall"])
                   ELSE F[k - 1]
    IN  F[n * m]

\* "boundary" in v or "wall" in v, for the messages check_collisions writes
\* (no furniture name of the inputs contains either word)
MentionsBoundaryOrWall(v) ==
    v.text \in {"extends outside room boundary", "intersects with wall"}

CheckCollisions(geoms, r) ==
    LET collision_pairs == CollisionPairs(geoms)
        violations ==
          [k \in 1 .. Len(collision_pairs) |->
              [name |-> collision_pairs[k].furniture_1, text |-> "Collision between"]]
            \o BoundaryViolations(geoms, r) \o WallViolations(geoms, r)
    IN  [violations |-> violations,
         collision_pairs |-> collision_pairs,
         total_collisions |-> Len(collision_pairs),
         boundary_violations |-> Cardinality({k \in 1 .. Len(violations) :
                                             MentionsBoundaryOrWall(violations[k])})]

(***************************************************************************)
(* Validator: clearances, accessibility, heatmap, overall score.  Lengths  *)
(* in millimetres, areas in square centimetres, scores in thousandths.     *)
(***************************************************************************)
DefaultMinDoorClearanceMm == 800
DoorBlockedWithinMm == 800
WindowBlockedWithinMm == 600
HeatmapResolutionMm == 200
HeatmapTooCloseMm == 300
HeatmapGoodClearanceMm == 1500

\* round(v, 3) of a non-negative quotient, in thousandths: the nearest
\* integers to num / den; at a decimal tie the binary value decides
RoundOutcomes(num, den) ==
    LET q == num \div den
        r == num % den
    IN  IF 2 * r < den THEN {q} ELSE IF 2 * r > den THEN {q + 1} ELSE {q, q + 1}

Clip(a, b) ==
    Rect(Max2(a.x1, b.x1), Max2(a.y1, b.y1), Min2(a.x2, b.x2), Min2(a.y2, b.y2))
RectAreaCm2(g) == (Max2(0, g.x2 - g.x1) * Max2(0, g.y2 - g.y1)) \div 100

RECURSIVE ClipAll(_, _, _)
ClipAll(idx, fgeoms, acc) ==
    IF idx = {} THEN acc
    ELSE LET k == CHOOSE k \in idx : TRUE
         IN  ClipAll(idx \ {k}, fgeoms, Clip(acc, fgeoms[k].geometry))

RECURSIVE SignedAreas(_, _, _)
SignedAreas(subsets, fgeoms, within) ==
    IF subsets = {} THEN 0
    ELSE LET sub == CHOOSE sub \in subsets : TRUE
             area == RectAreaCm2(ClipAll(sub, fgeoms, within))
         IN  (IF Cardinality(sub) % 2 = 1 THEN area ELSE 0 - area)
               + SignedAreas(subsets \ {sub}, fgeoms, within)

\* room_polygon.difference(unary_union(furniture)).area
WalkableAreaCm2(fgeoms, r) ==
    RectAreaCm2(RoomPolygon(r))
      - SignedAreas(SUBSET (1 .. Len(fgeoms)) \ {{}}, fgeoms, RoomPolygon(r))

PointRect(pt) == Rect(pt.x, pt.y, pt.x, pt.y)

\* the furniture-to-furniture loop of validate_clearances
ClearanceIssues(fgeoms) ==
    LET n == Len(fgeoms)
        F[k \in 0 .. n * n] ==
          IF k = 0 THEN <<>>
          ELSE LET i == (k - 1) \div n + 1
                   j == ((k - 1) % n) + 1
                   required_clearance ==
                     IF i < j THEN Max2(fgeoms[i].clearance_all, fgeoms[j].clearance_all)
                     ELSE 0
               IN  IF i < j /\ GapSq(fgeoms[i].geometry, fgeoms[j].geometry)
                                 < required_clearance * required_clearance
                   THEN Append(F[k - 1],
                          [furniture_1 |-> fgeoms[i].id, furniture_2 |-> fgeoms[j].id,
                           required_distance |-> required_clearance])
                   ELSE F[k - 1]
    IN  F[n * n]

\* the door loop of validate_clearances: doors outer, furniture inner
DoorClearanceViolations(fgeoms, r, min_door_clearance) ==
    LET n == Len(r.doors)
        m == Len(fgeoms)
        F[k \in 0 .. n * m] ==
          IF k = 0 THEN <<>>
          ELSE LET i == (k - 1) \div m + 1
                   j == ((k - 1) % m) + 1
               IN  IF GapSq(PointRect(r.doors[i]), fgeoms[j].geometry)
                        < min_door_clearance * min_door_clearance
                   THEN Append(F[k - 1],
                          [name |-> fgeoms[j].name, text |-> "too close to door"])
                   ELSE F[k - 1]
    IN  F[n * m]

ValidateClearances(fgeoms, r, min_door_clearance) ==
    LET clearance_issues == ClearanceIssues(fgeoms)
        walkable == WalkableAreaCm2(fgeoms, r)
        room_area == RectAreaCm2(RoomPolygon(r))
        violations ==
          [k \in 1 .. Len(clearance_issues) |->
              [name |-> clearance_issues[k].furniture_1,
               text |-> "Insufficient clearance between"]]
            \o DoorClearanceViolations(fgeoms, r, min_door_clearance)
            \o (IF 10 * walkable < 3 * room_area
                THEN <<[name |-> "room", text |-> "Insufficient walkable area in room"]>>
                ELSE <<>>)
    IN  [violations |-> violations,
         clearance_issues |-> clearance_issues,
         total_issues |-> Len(clearance_issues),
         walkable_area_cm2 |-> walkable,
         walkable_area_ratio |-> IF room_area > 0
                                 THEN (1000 * walkable) \div room_area ELSE 0]

\* "blocked" of analyze_accessibility: some furniture geometry is nearer to
\* the point than the limit (Point.distance to the polygon, 0 inside it)
Blocked(pt, fgeoms, limit) ==
    \E k \in 1 .. Len(fgeoms) :
       GapSq(PointRect(pt), fgeoms[k].geometry) < limit * limit

\* door_access_scores / window_access_scores: 0 if blocked, 1 if not
AccessScores(points, fgeoms, limit) ==
    [k \in 1 .. Len(points) |-> IF Blocked(points[k], fgeoms, limit) THEN 0 ELSE 1]

CountOf(scores, v) == Cardinality({k \in 1 .. Len(scores) : scores[k] = v})

\* analyze_accessibility; the two rounded fields may each fall either way at
\* a tie, so the operator gives the set of possible returns
AnalyzeAccessibility(fgeoms, r) ==
    LET door_access_scores == AccessScores(r.doors, fgeoms, DoorBlockedWithinMm)
        window_access_scores == AccessScores(r.windows, fgeoms, WindowBlockedWithinMm)
        dn == IF r.doors = <<>> THEN 1 ELSE Len(r.doors)
        du == IF r.doors = <<>> THEN 1 ELSE CountOf(door_access_scores, 1)
        wn == IF r.windows = <<>> THEN 1 ELSE Len(r.windows)
        wu == IF r.windows = <<>> THEN 1 ELSE CountOf(window_access_scores, 1)
        room2 == 2 * RectAreaCm2(RoomPolygon(r))
        flow == Min2(room2, 5 * WalkableAreaCm2(fgeoms, r))
    IN  {[score |-> sc,
          door_access_scores |-> door_access_scores,
          window_access_scores |-> window_access_scores,
          flow_efficiency |-> fl,
          blocked_doors |-> CountOf(door_access_scores, 0),
          blocked_windows |-> CountOf(window_access_scores, 0)] :
            sc \in RoundOutcomes(500 * du * wn * room2 + 300 * wu * dn * room2
                                   + 200 * dn * wn * flow, dn * wn * room2),
            fl \in RoundOutcomes(1000 * flow, room2)}

\* generate_recommendations; walkable_area_ratio and flow_efficiency are in
\* thousandths
GenerateRecommendations(coll, clear, acc) ==
    (IF coll.total_collisions > 0
     THEN <<"Move overlapping furniture to eliminate collisions">> ELSE <<>>)
    \o (IF coll.boundary_violations > 0
        THEN <<"Ensure all furniture fits within room boundaries">> ELSE <<>>)
    \o (IF clear.total_issues > 0
        THEN <<"Increase spacing between furniture for better flow">> ELSE <<>>)
    \o (IF clear.walkable_area_ratio < 300
        THEN <<"Reduce furniture density to improve walkability">> ELSE <<>>)
    \o (IF acc.blocked_doors > 0
        THEN <<"Clear pathways to doors for emergency access">> ELSE <<>>)
    \o (IF acc.blocked_windows > 0
        THEN <<"Improve access to windows for natural light and ventilation">>
        ELSE <<>>)
    \o (IF acc.flow_efficiency < 700
        THEN <<"Reorganize furniture to create better navigation paths">> ELSE <<>>)

\* Polygon.contains(Point): the point lies in the interior
ContainsPoint(g, x, y) == g.x1 < x /\ x < g.x2 /\ g.y1 < y /\ y < g.y2

\* whole millimetres of a distance between the two heatmap limits
Isqrt(n) ==
    CHOOSE d \in HeatmapTooCloseMm .. HeatmapGoodClearanceMm :
        d * d <= n /\ n < (d + 1) * (d + 1)

RECURSIVE MinGapSq(_, _, _)
MinGapSq(pt, fgeoms, k) ==
    IF k = 1 THEN GapSq(pt, fgeoms[1].geometry)
    ELSE Min2(GapSq(pt, fgeoms[k].geometry), MinGapSq(pt, fgeoms, k - 1))

\* one cell of the heatmap, in thousandths; -1 marks "outside room"
HeatmapCell(x, y, fgeoms, r) ==
    IF ~ContainsPoint(RoomPolygon(r), x, y) THEN -1
    ELSE IF fgeoms = <<>> THEN 1000            \* min_distance stays inf
    ELSE LET dsq == MinGapSq(Rect(x, y, x, y), fgeoms, Len(fgeoms))
         IN  IF dsq < HeatmapTooCloseMm * HeatmapTooCloseMm THEN 0
             ELSE IF dsq > HeatmapGoodClearanceMm * HeatmapGoodClearanceMm THEN 1000
             ELSE ((Isqrt(dsq) - HeatmapTooCloseMm) * 1000)
                    \div (HeatmapGoodClearanceMm - HeatmapTooCloseMm)

\* generate_navigation_heatmap; grid[i][j] with i, j from 0
GenerateNavigationHeatmap(fgeoms, r) ==
    LET grid_width == ((r.max_x - r.min_x) \div HeatmapResolutionMm) + 1
        grid_height == ((r.max_y - r.min_y) \div HeatmapResolutionMm) + 1
    IN  [grid |-> [i \in 0 .. grid_height - 1 |->
                     [j \in 0 .. grid_width - 1 |->
                        HeatmapCell(r.min_x + j * HeatmapResolutionMm,
                                    r.min_y + i * HeatmapResolutionMm, fgeoms, r)]],
         resolution |-> HeatmapResolutionMm,
         width |-> grid_width,
         height |-> grid_height]

\* calculate_overall_score without the min(1.0, ...) on the penalties
OverallScoreUnclamped(total_collisions, total_issues, base_score) ==
    LET final_score == base_score * (10 - total_collisions * 2) * (10 - total_issues)
    IN  {Max2(0, v) : v \in RoundOutcomes(Max2(0, final_score), 100)}

\* calculate_overall_score from the two counts and the base score (in
\* thousandths): the set of possible returns, in thousandths
OverallScore(total_collisions, total_issues, base_score) ==
    LET collision_penalty == Min2(10, total_collisions * 2)     \* tenths
        clearance_penalty == Min2(10, total_issues)               \* tenths
        final_score == base_score * (10 - collision_penalty) * (10 - clearance_penalty)
    IN  {Max2(0, v) : v \in RoundOutcomes(final_score, 100)}

CalculateOverallScore(collisions, clearances, accessibility) ==
    OverallScore(collisions.total_collisions, clearances.total_issues,
                 accessibility.score)

(***************************************************************************)
(* Inputs of the solver run.                                               *)
(***************************************************************************)
SideTable ==
    [id |-> "side_table", name |-> "Side Table", width_cm |-> MaxItemWidthCm,
     depth_cm |-> MaxItemDepthCm, height_cm |-> 55, clearance_all |-> 4,
     price_cents |-> 12999]
CoffeeTable ==
    [id |-> "coffee_table", name |-> "Coffee Table", width_cm |-> MaxItemWidthCm - 1,
     depth_cm |-> MaxItemDepthCm - 1, height_cm |-> 45, clearance_all |-> 2,
     price_cents |-> 24999]
Armchair ==
    [id |-> "armchair", name |-> "Armchair", width_cm |-> MaxItemWidthCm - 3,
     depth_cm |-> MaxItemDepthCm - 1, height_cm |-> 90, clearance_all |-> 2,
     price_cents |-> 39900]
Bookshelf ==
    [id |-> "bookshelf", name |-> "Bookshelf", width_cm |-> MaxItemWidthCm - 1,
     depth_cm |-> MaxItemDepthCm, height_cm |-> 180, clearance_all |-> NoAll,
     price_cents |-> 29999]

ItemLists ==
    {<<SideTable>>, <<CoffeeTable>>, <<Bookshelf>>,
     <<SideTable, CoffeeTable>>, <<CoffeeTable, Armchair>>,
     <<SideTable, Bookshelf>>}

\* the four walls on the room's bounds, default thickness
BoundaryWalls(w, h) ==
    <<[x1 |-> 0, y1 |-> 0, x2 |-> w, y2 |-> 0, thickness |-> DefaultWallThicknessMm],
      [x1 |-> w, y1 |-> 0, x2 |-> w, y2 |-> h, thickness |-> DefaultWallThicknessMm],
      [x1 |-> w, y1 |-> h, x2 |-> 0, y2 |-> h, thickness |-> DefaultWallThicknessMm],
      [x1 |-> 0, y1 |-> h, x2 |-> 0, y2 |-> 0, thickness |-> DefaultWallThicknessMm]>>

RoomOf(w, h, walls, doors, windows, door_clearance) ==
    [min_x |-> 0, min_y |-> 0, max_x |-> w, max_y |-> h,
     walls |-> walls, doors |-> doors, windows |-> windows,
     min_door_clearance_cm |-> door_clearance,
     min_window_access_cm |-> DefaultWindowAccessCm]

\* widths and heights in millimetres; the small width is not a whole
\* number of centimetres
SmallRoomWidthMm == MinRoomWidthCm * 10 + 5
WideRoomWidthMm == MaxRoomWidthCm * 10
LongRoomWidthMm == LongRoomWidthCm * 10
RoomHeightMm == MaxRoomHeightCm * 10
DoorAt == [x |-> 40, y |-> 20]
CornerDoor == [x |-> 0, y |-> 0]
WindowAt == [x |-> 0, y |-> 0]

Rooms ==
    {RoomOf(w, RoomHeightMm, BoundaryWalls(w, RoomHeightMm), <<>>, <<>>,
            DefaultDoorClearanceCm) : w \in {SmallRoomWidthMm, WideRoomWidthMm}}
    \cup {RoomOf(SmallRoomWidthMm, RoomHeightMm, <<>>, <<DoorAt>>, <<WindowAt>>, 4),
          RoomOf(LongRoomWidthMm, RoomHeightMm, <<>>, <<CornerDoor>>, <<>>,
                 DefaultDoorClearanceCm)}

NoReport == [violations |-> <<>>, collision_pairs |-> <<>>,
             total_collisions |-> -1, boundary_violations |-> -1]
NoJob == [id |-> "none"]
NoResult == [status |-> "none"]

NoCall == [fn |-> "none"]

JobIdle ==
    /\ job = NoJob /\ jpc = "idle" /\ progress = <<>> /\ catalog = <<>>
    /\ variants = <<>> /\ result = NoResult /\ published = <<>>

ValIdle ==
    /\ furniture_geometries = <<>> /\ collision_results = NoReport
    /\ clearance_results = NoReport
    /\ accessibility_results = NoReport /\ heatmap_data = NoReport

ConcIdle == handlers = <<>> /\ streams = <<>> /\ outbox = <<>>

\* the strategy table: coverage, budget and flow weights, in tenths
Strategies ==
    {[placement_coverage |-> 10, budget_optimization |-> 4, flow_optimization |-> 3],
     [placement_coverage |-> 8, budget_optimization |-> 5, flow_optimization |-> 4],
     [placement_coverage |-> 10, budget_optimization |-> 3, flow_optimization |-> 5]}

Init ==
    /\ room \in Rooms
    /\ items \in ItemLists
    /\ objectives \in Strategies
    /\ pc = "ready"
    /\ status = "none"
    /\ value = NoValue
    /\ solutions = <<>>
    /\ report = NoReport
    /\ JobIdle /\ ValIdle /\ call = NoCall /\ ConcIdle

SolveLayout ==
    /\ pc = "ready"
    /\ \E outcome \in SolveOutcomes(room, items, objectives) :
          /\ status' = outcome.status
          /\ value' = outcome.value
          /\ solutions' = SolveLayoutResult(items, outcome)
    /\ pc' = "solved"
    /\ UNCHANGED <<room, items, objectives, report>>
    /\ UNCHANGED <<jobVars, valVars, call, concVars>>

ValidateSolverOutput ==
    /\ pc = "solved"
    /\ report' = CheckCollisions(
          CreateFurnitureGeometries(ToValidatorPlacements(items, solutions)), room)
    /\ pc' = "validated"
    /\ UNCHANGED <<room, items, objectives, status, value, solutions>>
    /\ UNCHANGED <<jobVars, valVars, call, concVars>>

Next == SolveLayout \/ ValidateSolverOutput

Spec == Init /\ [][Next]_vars

(***************************************************************************)
(* Footprint of a returned placement as the data model defines it: the     *)
(* item's real width_cm x depth_cm (swapped for 90 and 270 degrees) with   *)
(* its lower-left corner at (x_cm, y_cm).  Centimetres.                    *)
(***************************************************************************)
SolverFootprint(its, sol) ==
    LET item == ItemById(its, sol.furniture_id)
        swapped == sol.rotation_deg = 90 \/ sol.rotation_deg = 270
        w_rot == IF swapped THEN item.depth_cm ELSE item.width_cm
        d_rot == IF swapped THEN item.width_cm ELSE item.depth_cm
    IN  Rect(sol.x_cm, sol.y_cm, sol.x_cm + w_rot, sol.y_cm + d_rot)

\* the same rectangle in millimetres
ScaleRect(g, f) == Rect(g.x1 * f, g.y1 * f, g.x2 * f, g.y2 * f)

Returned == pc # "ready" /\ status \in {"OPTIMAL", "FEASIBLE"}

\* C1: no two footprints of a returned placement set overlap with positive
\* area, whatever the item dimensions.
C1_FootprintsDisjoint ==
    Returned =>
      \A i, j \in 1 .. Len(solutions) :
         i # j => IntersectionArea(SolverFootprint(items, solutions[i]),
                                   SolverFootprint(items, solutions[j])) = 0

\* C2: every returned footprint lies inside the room: 0 <= x_cm, 0 <= y_cm,
\* x_cm + w_rot <= room width and y_cm + d_rot <= room height.
C2_FootprintsInsideRoom ==
    Returned =>
      \A i \in 1 .. Len(solutions) :
         Contains(Rect(0, 0, room.max_x - room.min_x, room.max_y - room.min_y),
                  ScaleRect(SolverFootprint(items, solutions[i]), 10))

\* C3: the distance between the footprints of any two returned placements
\* is at least the larger of the two items' clearances.
C3_ClearanceBetweenFootprints ==
    Returned =>
      \A i, j \in 1 .. Len(solutions) :
         i # j =>
           LET c == Max2(ClearanceOf(ItemById(items, solutions[i].furniture_id)),
                         ClearanceOf(ItemById(items, solutions[j].furniture_id)))
           IN  GapSq(SolverFootprint(items, solutions[i]),
                     SolverFootprint(items, solutions[j])) >= c * c

\* C4: every point of every returned footprint is at least
\* min_door_clearance_cm away from every door position.
C4_DoorClearOfFootprints ==
    Returned =>
      \A i \in 1 .. Len(solutions) : \A k \in 1 .. Len(room.doors) :
         LET d == room.doors[k]
             c == room.min_door_clearance_cm * 10
         IN  GapSq(ScaleRect(SolverFootprint(items, solutions[i]), 10),
                   Rect(d.x, d.y, d.x, d.y)) >= c * c

\* C5: the validator reports no collision on a non-empty placement set the
\* solver returned.
C5_RoundTripNoCollisions ==
    (pc = "validated" /\ status \in {"OPTIMAL", "FEASIBLE"} /\ solutions # <<>>) =>
      (report.collision_pairs = <<>> /\ report.total_collisions = 0)

\* C6: every returned footprint is disjoint from every wall footprint, and
\* the validator's wall check never fires on a solver output.
C6_FootprintsClearOfWalls ==
    (pc = "validated" /\ status \in {"OPTIMAL", "FEASIBLE"}) =>
      /\ \A i \in 1 .. Len(solutions) : \A k \in 1 .. Len(room.walls) :
            ~IntersectsWall(ScaleRect(SolverFootprint(items, solutions[i]), 10),
                            room.walls[k])
      /\ \A k \in 1 .. Len(report.violations) :
            report.violations[k].text # "intersects with wall"

\* C7: the returned list holds exactly one placement per item whose placed
\* variable is 1 and none for the others; each placement has x_cm = 2 x,
\* y_cm = 2 y, rotation_deg = 90 rot in {0, 90, 180, 270}, confidence 0.9.
C7_Extraction ==
    Returned =>
      /\ \A k \in 1 .. Len(items) :
            Cardinality({j \in 1 .. Len(solutions) :
                           solutions[j].furniture_id = items[k].id}) = value[k].placed
      /\ \A j \in 1 .. Len(solutions) :
            \E k \in 1 .. Len(items) :
               /\ items[k].id = solutions[j].furniture_id
               /\ value[k].placed = 1
               /\ solutions[j].x_cm = 2 * value[k].x
               /\ solutions[j].y_cm = 2 * value[k].y
               /\ solutions[j].rotation_deg = 90 * value[k].rot
               /\ solutions[j].rotation_deg \in {0, 90, 180, 270}
               /\ solutions[j].confidence = 90

\* a returned list with one item placed away from the origin and turned by
\* 270 degrees, and one item left out
C7_Witness ==
    /\ Returned
    /\ Len(items) = 2 /\ Len(solutions) = 1
    /\ \E k \in 1 .. 2 :
          value[k].placed = 1 /\ value[k].rot = 3 /\ value[k].x > 0 /\ value[k].y > 0

\* C19: a solve that ends on the time limit with a solution found (status
\* FEASIBLE) returns placements of confidence 0.8; confidence 0.9 belongs to
\* a search that completed (status OPTIMAL).
C19_TimeoutConfidence ==
    Returned =>
      \A k \in 1 .. Len(solutions) :
         solutions[k].confidence = IF status = "FEASIBLE" THEN 80 ELSE 90

(***************************************************************************)
(* Layout job: generate_layouts of layout-worker/main.py.                  *)
(***************************************************************************)
NoBudget == -1        \* budget_cents is None
DefaultAreaSqm == 20
SmallRoomSqm == 15
MaxSmallRoomItemCm2 == 20000
NumVariants == 3

\* base_catalog, dimensions in centimetres
BaseCatalog ==
    <<[id |-> "sofa_3seat", name |-> "3-Seat Sofa", width_cm |-> 228, depth_cm |-> 95,
       price_cents |-> 79900, style_tags |-> {"modern", "traditional"}, priority |-> 1],
      [id |-> "armchair", name |-> "Armchair", width_cm |-> 80, depth_cm |-> 85,
       price_cents |-> 39900, style_tags |-> {"modern", "traditional", "minimalist"},
       priority |-> 2],
      [id |-> "coffee_table", name |-> "Coffee Table", width_cm |-> 120, depth_cm |-> 60,
       price_cents |-> 24999, style_tags |-> {"modern", "minimalist"}, priority |-> 2],
      [id |-> "side_table", name |-> "Side Table", width_cm |-> 50, depth_cm |-> 50,
       price_cents |-> 12999, style_tags |-> {"modern", "traditional"}, priority |-> 3],
      [id |-> "tv_stand", name |-> "TV Stand", width_cm |-> 150, depth_cm |-> 40,
       price_cents |-> 34999, style_tags |-> {"modern", "minimalist"}, priority |-> 2],
      [id |-> "bookshelf", name |-> "Bookshelf", width_cm |-> 80, depth_cm |-> 30,
       price_cents |-> 29999, style_tags |-> {"traditional", "modern"}, priority |-> 3],
      [id |-> "desk", name |-> "Desk", width_cm |-> 120, depth_cm |-> 60,
       price_cents |-> 45999, style_tags |-> {"modern", "minimalist"}, priority |-> 2],
      [id |-> "office_chair", name |-> "Office Chair", width_cm |-> 60, depth_cm |-> 60,
       price_cents |-> 25999, style_tags |-> {"modern", "ergonomic"}, priority |-> 2]>>

\* "if budget_cents:" is true for an integer other than 0
BudgetGiven(budget_cents) == budget_cents # NoBudget /\ budget_cents # 0

\* item["price_cents"] <= budget_cents * 0.4; the double product of an
\* integer and 0.4 compares with an integer as 2 * budget / 5 does
WithinBudget(item, budget_cents) == 5 * item.price_cents <= 2 * budget_cents

GenerateFurnitureCatalog(floor_plan, style_prefs, budget_cents) ==
    LET area_sqm == floor_plan.area_sqm
        HasStyle(item) == item.style_tags \cap style_prefs # {}
        Affordable(item) == WithinBudget(item, budget_cents)
        FitsSmallRoom(item) == item.width_cm * item.depth_cm < MaxSmallRoomItemCm2
        filtered_catalog == SelectSeq(BaseCatalog, HasStyle)
        by_style == IF style_prefs # {} /\ filtered_catalog # <<>>
                    THEN filtered_catalog ELSE BaseCatalog
        by_budget == IF BudgetGiven(budget_cents)
                     THEN SelectSeq(by_style, Affordable) ELSE by_style
    IN  IF area_sqm < SmallRoomSqm THEN SelectSeq(by_budget, FitsSmallRoom) ELSE by_budget

InCatalog(cat, id) == \E k \in 1 .. Len(cat) : cat[k].id = id

\* one placement of generate_layout_solution; x and y in centimetres
Place(cat, id, x, y, rotation, anchor_type) ==
    IF InCatalog(cat, id)
    THEN <<[furniture_id |-> id, x |-> x, y |-> y, rotation |-> rotation,
            anchor_type |-> anchor_type]>>
    ELSE <<>>

GenerateLayoutSolution(cat, strategy, name) ==
    [strategy |-> strategy, name |-> name,
     placements |->
        CASE strategy = "conversation_focused" ->
               Place(cat, "sofa_3seat", 100, 50, 0, "wall_aligned")
                 \o Place(cat, "coffee_table", 100, 180, 0, "sofa_front")
                 \o Place(cat, "armchair", 350, 100, 270, "conversation_angle")
          [] strategy = "work_focused" ->
               Place(cat, "desk", 400, 100, 90, "window_adjacent")
                 \o Place(cat, "office_chair", 320, 100, 90, "desk_pair")
                 \o Place(cat, "sofa_3seat", 100, 250, 0, "wall_aligned")
          [] OTHER ->
               Place(cat, "tv_stand", 250, 20, 0, "wall_centered")
                 \o Place(cat, "sofa_3seat", 250, 280, 180, "tv_viewing")
                 \o Place(cat, "side_table", 100, 280, 0, "sofa_side")]

VariantSolution(cat, variant) ==
    IF variant = 0 THEN GenerateLayoutSolution(cat, "conversation_focused", "Cozy Conversation")
    ELSE IF variant = 1 THEN GenerateLayoutSolution(cat, "work_focused", "Work & Lounge")
    ELSE GenerateLayoutSolution(cat, "entertainment_focused", "Entertainment Hub")

SolveLayoutVariants(cat, num_variants) ==
    [k \in 1 .. num_variants |-> VariantSolution(cat, k - 1)]

CatalogItem(cat, id) == cat[CHOOSE k \in 1 .. Len(cat) : cat[k].id = id]

MockFlowScore == 850      \* in thousandths

\* a flow score that falls by 0.1 with every placement
CalculateFlowScoreByCount(placements, floor_plan) ==
    Max2(0, 1000 - 100 * Len(placements))

\* calculate_flow_score: the same score for every layout
CalculateFlowScore(placements, floor_plan) == MockFlowScore

\* post_process_layout: the placements enriched from the catalog; layout_id
\* is the job id with the 1-based index of the solution
PostProcessLayout(solution, cat, floor_plan, job_id, index) ==
    LET Known(pl) == InCatalog(cat, pl.furniture_id)
        kept == SelectSeq(solution.placements, Known)
        enriched_placements ==
          [k \in 1 .. Len(kept) |->
              [furniture_id |-> kept[k].furniture_id,
               x |-> kept[k].x, y |-> kept[k].y, rotation |-> kept[k].rotation,
               anchor_type |-> kept[k].anchor_type,
               furniture_name |-> CatalogItem(cat, kept[k].furniture_id).name,
               price_cents |-> CatalogItem(cat, kept[k].furniture_id).price_cents]]
    IN  [id |-> <<job_id, "layout", index>>,
         name |-> solution.name,
         strategy |-> solution.strategy,
         placements |-> enriched_placements,
         furniture_count |-> Len(enriched_placements),
         flow_score |-> CalculateFlowScore(enriched_placements, floor_plan)]

PostProcessAll(sols, cat, floor_plan, job_id) ==
    [k \in 1 .. Len(sols) |-> PostProcessLayout(sols[k], cat, floor_plan, job_id, k)]

(***************************************************************************)
(* Inputs of the layout job.                                               *)
(***************************************************************************)
\* budgets around 2.5 times the prices 12999 and 79900, none, zero, one cent
BudgetChoices == {NoBudget, 0, 1, 32497, 32498, 100000, 199749, 199750}
StyleChoices == {{}, {"modern"}, {"ergonomic"}, {"rustic"}, {"traditional", "ergonomic"}}
AreaChoices == {12, DefaultAreaSqm}

NoId == "None"      \* the record has no "id": job_data.get("id") is None
BadArea == -1       \* area_sqm is not a number

\* a record that is no JSON, one without an id, one whose area_sqm is a string
DefectiveJobs ==
    {[subject |-> "layout.jobs", id |-> NoId, json_ok |-> FALSE, floor_plan |-> [area_sqm |-> DefaultAreaSqm],
      style_prefs |-> {}, budget_cents |-> NoBudget],
     [subject |-> "layout.jobs", id |-> NoId, json_ok |-> TRUE, floor_plan |-> [area_sqm |-> DefaultAreaSqm],
      style_prefs |-> {"modern"}, budget_cents |-> NoBudget],
     [subject |-> "layout.jobs", id |-> "job1", json_ok |-> TRUE,
      floor_plan |-> [area_sqm |-> BadArea],
      style_prefs |-> {}, budget_cents |-> NoBudget]}

Jobs ==
    [subject : {"layout.jobs"}, id : {"job1"}, json_ok : {TRUE},
     floor_plan : [area_sqm : AreaChoices],
     style_prefs : StyleChoices, budget_cents : BudgetChoices]
      \cup DefectiveJobs

SolverIdle ==
    /\ room = RoomOf(0, 0, <<>>, <<>>, <<>>, DefaultDoorClearanceCm)
    /\ items = <<>> /\ objectives = NoObjectives
    /\ pc = "idle" /\ status = "none" /\ value = NoValue
    /\ solutions = <<>> /\ report = NoReport

JobInit ==
    /\ job \in Jobs
    /\ jpc = "received"
    /\ progress = <<>>
    /\ catalog = <<>>
    /\ variants = <<>>
    /\ result = NoResult
    /\ published = <<>>
    /\ SolverIdle /\ ValIdle /\ call = NoCall /\ ConcIdle

\* update_job_progress: XADD to job_progress:<job_id>; progress in percent
UpdateJobProgress(stream, pct) == Append(stream, pct)

\* layout_job_handler: json.loads raises, the handler logs and returns
JobDecodeFails ==
    /\ job.subject = "layout.jobs"
    /\ jpc = "received"
    /\ ~job.json_ok
    /\ jpc' = "done"
    /\ UNCHANGED <<job, progress, catalog, variants, result, published>>
    /\ UNCHANGED <<solverVars, valVars, call, concVars>>

\* an except branch that also reports the progress 0.0 of the result it builds
ProgressOnFailureReset(stream) == Append(stream, 0)

\* the except branches of generate_layouts and validate_layout build a
\* failed result and call update_job_progress no more: the stream stays
ProgressOnFailure(stream) == stream

\* LayoutResult(job_id=job_id, status="failed", error=str(e), progress=0.0)
FailedLayoutResult(j) ==
    [job_id |-> j.id, status |-> "failed", error |-> "exception", progress |-> 0]

\* the except branch of generate_layouts, entered from any step of the try
\* block (a Redis error in update_job_progress, a TypeError in a step).
\* job_id: str refuses None, so without an id the constructor raises in
\* turn and layout_job_handler logs the error and publishes nothing.
JobExcept ==
    /\ job.subject = "layout.jobs"
    /\ jpc \in {"received", "geometry", "catalog", "build", "solve", "post"}
    /\ job.json_ok
    /\ IF job.id = NoId
       THEN jpc' = "done" /\ UNCHANGED result
       ELSE jpc' = "publish" /\ result' = FailedLayoutResult(job)
    /\ progress' = ProgressOnFailure(progress)
    /\ UNCHANGED <<job, catalog, variants, published>>
    /\ UNCHANGED <<solverVars, valVars, call, concVars>>

JobInitialise ==
    /\ job.subject = "layout.jobs"
    /\ jpc = "received"
    /\ job.json_ok
    /\ progress' = UpdateJobProgress(progress, 10)
    /\ jpc' = "geometry"
    /\ UNCHANGED <<job, catalog, variants, result, published>>
    /\ UNCHANGED <<solverVars, valVars, call, concVars>>

JobAnalyseGeometry ==
    /\ jpc = "geometry"
    /\ progress' = UpdateJobProgress(progress, 20)
    /\ jpc' = "catalog"
    /\ UNCHANGED <<job, catalog, variants, result, published>>
    /\ UNCHANGED <<solverVars, valVars, call, concVars>>

JobCatalog ==
    /\ jpc = "catalog"
    /\ job.floor_plan.area_sqm # BadArea      \* "abc" < 15 raises TypeError
    /\ catalog' = GenerateFurnitureCatalog(job.floor_plan, job.style_prefs,
                                           job.budget_cents)
    /\ progress' = UpdateJobProgress(progress, 30)
    /\ jpc' = "build"
    /\ UNCHANGED <<job, variants, result, published>>
    /\ UNCHANGED <<solverVars, valVars, call, concVars>>

JobBuildModel ==
    /\ jpc = "build"
    /\ progress' = UpdateJobProgress(progress, 50)
    /\ jpc' = "solve"
    /\ UNCHANGED <<job, catalog, variants, result, published>>
    /\ UNCHANGED <<solverVars, valVars, call, concVars>>

JobSolve ==
    /\ jpc = "solve"
    /\ variants' = SolveLayoutVariants(catalog, NumVariants)
    /\ progress' = UpdateJobProgress(progress, 80)
    /\ jpc' = "post"
    /\ UNCHANGED <<job, catalog, result, published>>
    /\ UNCHANGED <<solverVars, valVars, call, concVars>>

JobPostProcess ==
    /\ jpc = "post"
    /\ IF job.id = NoId
       THEN /\ progress' = ProgressOnFailure(UpdateJobProgress(progress, 100))
            /\ jpc' = "done" /\ UNCHANGED result
       ELSE /\ progress' = UpdateJobProgress(progress, 100)
            /\ result' = [job_id |-> job.id, status |-> "completed",
                          layouts |-> PostProcessAll(variants, catalog,
                                                     job.floor_plan, job.id),
                          progress |-> 100]
            /\ jpc' = "publish"
    /\ UNCHANGED <<job, catalog, variants, published>>
    /\ UNCHANGED <<solverVars, valVars, call, concVars>>

\* layout_job_handler: nats_client.publish("layout.results", ...)
JobPublish ==
    /\ job.subject = "layout.jobs"
    /\ jpc = "publish"
    /\ published' = Append(published, result)
    /\ jpc' = "done"
    /\ UNCHANGED <<job, progress, catalog, variants, result>>
    /\ UNCHANGED <<solverVars, valVars, call, concVars>>

JobNext ==
    \/ JobDecodeFails \/ JobExcept
    \/ JobInitialise \/ JobAnalyseGeometry \/ JobCatalog \/ JobBuildModel
    \/ JobSolve \/ JobPostProcess \/ JobPublish

JobSpec == JobInit /\ [][JobNext]_vars

\* C8: with a budget supplied (any integer >= 0, 0 included) the catalog
\* holds no item with price_cents > 0.4 * budget_cents, and with a budget of
\* 0 the catalog is empty.
C8_BudgetFilter ==
    (jpc \notin {"received", "geometry", "catalog"} /\ job.budget_cents # NoBudget) =>
      /\ \A k \in 1 .. Len(catalog) : 5 * catalog[k].price_cents <= 2 * job.budget_cents
      /\ job.budget_cents = 0 => catalog = <<>>

\* C9: a job whose catalog is empty and that ran through all its steps
\* returns status completed with layouts equal to the empty list.
C9_EmptyCatalogNoLayouts ==
    (result # NoResult /\ catalog = <<>> /\ Len(progress) = 6) =>
      (result.status = "completed" /\ result.layouts = <<>>)

\* the set {(item_id, x, y, rotation)} of a layout
PlacementSet(layout) ==
    {<<layout.placements[k].furniture_id, layout.placements[k].x,
       layout.placements[k].y, layout.placements[k].rotation>> :
        k \in 1 .. Len(layout.placements)}

\* C10: no two layouts of a result have the same placement set, and a result
\* holds at most 3 layouts.
C10_DistinctLayouts ==
    (result # NoResult /\ result.status = "completed") =>
      /\ Len(result.layouts) <= 3
      /\ \A i, j \in 1 .. Len(result.layouts) :
            i # j => PlacementSet(result.layouts[i]) # PlacementSet(result.layouts[j])

\* C11: the catalog of a job is ordered by priority ascending (equal
\* priorities in base-catalog order).
C11_CatalogByPriority ==
    jpc \notin {"received", "geometry", "catalog"} =>
      \A i, k \in 1 .. Len(catalog) :
         i < k => catalog[i].priority <= catalog[k].priority

(***************************************************************************)
(* Validation job: validation_job_handler and validate_layout of           *)
(* validate-worker/main.py.  The job runs on job, jpc, progress, result    *)
(* and published; the report keeps the fields the properties read.         *)
(***************************************************************************)
ValRoomMm == 2000

\* placements of a layout, millimetres: squares A, B, C meet along edges and
\* at a corner, D overlaps A and B, E and F stand apart, G has no "x", H has
\* an "x" that is no number
PlacementA == [furniture_id |-> "a", furniture_name |-> "A", x |-> 500, y |-> 500,
               rotation |-> 0, width |-> 1000, depth |-> 1000]
PlacementB == [PlacementA EXCEPT !.furniture_id = "b", !.furniture_name = "B", !.x = 1500]
PlacementC == [PlacementB EXCEPT !.furniture_id = "c", !.furniture_name = "C", !.y = 1500]
PlacementD == [PlacementA EXCEPT !.furniture_id = "d", !.furniture_name = "D", !.x = 1200]
PlacementE == [furniture_id |-> "e", furniture_name |-> "E", x |-> 1600, y |-> 1600,
               rotation |-> 90, width |-> 400, depth |-> 200, clearance_all |-> 100]
PlacementF == [furniture_id |-> "f", furniture_name |-> "F", x |-> 1200, y |-> 1400,
               rotation |-> 0, width |-> 600, depth |-> 600, clearance_all |-> 100]
PlacementG == [furniture_id |-> "g", furniture_name |-> "G", y |-> 500,
               rotation |-> 0, width |-> 1000, depth |-> 1000]
PlacementH == [PlacementA EXCEPT !.furniture_id = "h", !.furniture_name = "H",
                                 !.x = NotANumber]
PlacementI == [PlacementA EXCEPT !.furniture_id = "i", !.furniture_name = "I",
                                 !.x = 3000, !.y = 3000]

ValLayouts ==
    {<<>>, <<PlacementA, PlacementB>>, <<PlacementA, PlacementC>>, <<PlacementD>>,
     <<PlacementA, PlacementD>>, <<PlacementE>>, <<PlacementE, PlacementF>>,
     <<PlacementG, PlacementE>>, <<PlacementH, PlacementE>>,
     <<PlacementB, PlacementC, PlacementE>>, <<PlacementI>>,
     <<PlacementA, PlacementI>>}

ValFloorPlans ==
    {RoomOf(ValRoomMm, ValRoomMm, <<>>, <<[x |-> 0, y |-> 0]>>,
            <<[x |-> ValRoomMm, y |-> ValRoomMm]>>, DefaultDoorClearanceCm),
     RoomOf(ValRoomMm, ValRoomMm, BoundaryWalls(ValRoomMm, ValRoomMm), <<>>, <<>>,
            DefaultDoorClearanceCm)}

ValidationJobs ==
    [subject : {"validation.jobs"}, id : {"job1"}, layout_id : {"layout1"},
     json_ok : {TRUE},
     floor_plan : ValFloorPlans, layout : [placements : ValLayouts]]
      \cup {[subject |-> "validation.jobs", id |-> i, layout_id |-> "layout1",
             json_ok |-> ok,
             floor_plan |-> fp, layout |-> [placements |-> <<PlacementE>>]] :
               i \in {NoId}, ok \in BOOLEAN, fp \in ValFloorPlans}

ValInit ==
    /\ job \in ValidationJobs
    /\ jpc = "received"
    /\ progress = <<>>
    /\ catalog = <<>> /\ variants = <<>>
    /\ result = NoResult
    /\ published = <<>>
    /\ ValIdle
    /\ SolverIdle /\ call = NoCall /\ ConcIdle

\* ValidationResult(job_id=job_id, layout_id=layout_id, status="failed", ...)
FailedValidationResult(j) ==
    [job_id |-> j.id, layout_id |-> j.layout_id, status |-> "failed",
     error |-> "exception", progress |-> 0]

\* what the except branch of validate_layout leaves: the failed result for
\* the handler to publish; job_id: str refuses None, so without an id the
\* constructor raises in turn and the handler logs and publishes nothing
ValFailed ==
    IF job.id = NoId
    THEN jpc' = "done" /\ UNCHANGED result
    ELSE jpc' = "publish" /\ result' = FailedValidationResult(job)

\* validation_job_handler: json.loads raises, the handler logs and returns
ValDecodeFails ==
    /\ job.subject = "validation.jobs"
    /\ jpc = "received"
    /\ ~job.json_ok
    /\ jpc' = "done"
    /\ UNCHANGED <<job, progress, catalog, variants, result, published>>
    /\ UNCHANGED <<solverVars, valVars, call, concVars>>

\* update_job_progress raises (Redis) at any step of the try block
ValExcept ==
    /\ job.subject = "validation.jobs"
    /\ jpc \in {"received", "parsed", "geometries", "collisions", "clearances",
                "accessibility", "heatmap"}
    /\ job.json_ok
    /\ ValFailed
    /\ progress' = ProgressOnFailure(progress)
    /\ UNCHANGED <<job, catalog, variants, published>>
    /\ UNCHANGED <<solverVars, valVars, call, concVars>>

\* progress 0.1, then parse_room_geometry
ValParseRoom ==
    /\ job.subject = "validation.jobs"
    /\ jpc = "received"
    /\ job.json_ok
    /\ progress' = UpdateJobProgress(progress, 10)
    /\ jpc' = "parsed"
    /\ UNCHANGED <<job, catalog, variants, result, published>>
    /\ UNCHANGED <<solverVars, valVars, call, concVars>>

\* progress 0.2, then create_furniture_geometries, which raises on a value
\* that is no number
ValGeometries ==
    /\ jpc = "parsed"
    /\ IF \E k \in 1 .. Len(job.layout.placements) :
             RaisesTypeError(job.layout.placements[k])
       THEN /\ progress' = ProgressOnFailure(UpdateJobProgress(progress, 20))
            /\ ValFailed /\ UNCHANGED furniture_geometries
       ELSE /\ progress' = UpdateJobProgress(progress, 20)
            /\ furniture_geometries' = CreateFurnitureGeometries(job.layout.placements)
            /\ jpc' = "geometries"
            /\ UNCHANGED result
    /\ UNCHANGED <<job, catalog, variants, published>>
    /\ UNCHANGED <<collision_results, clearance_results, accessibility_results,
                   heatmap_data>>
    /\ UNCHANGED <<solverVars, call, concVars>>

\* progress 0.4, then check_collisions
ValCollisions ==
    /\ jpc = "geometries"
    /\ progress' = UpdateJobProgress(progress, 40)
    /\ collision_results' = CheckCollisions(furniture_geometries, job.floor_plan)
    /\ jpc' = "collisions"
    /\ UNCHANGED <<job, catalog, variants, result, published>>
    /\ UNCHANGED <<furniture_geometries, clearance_results, accessibility_results,
                   heatmap_data>>
    /\ UNCHANGED <<solverVars, call, concVars>>

\* progress 0.6, then validate_clearances
ValClearances ==
    /\ jpc = "collisions"
    /\ progress' = UpdateJobProgress(progress, 60)
    /\ clearance_results' = ValidateClearances(furniture_geometries, job.floor_plan,
                                               DefaultMinDoorClearanceMm)
    /\ jpc' = "clearances"
    /\ UNCHANGED <<job, catalog, variants, result, published>>
    /\ UNCHANGED <<furniture_geometries, collision_results, accessibility_results,
                   heatmap_data>>
    /\ UNCHANGED <<solverVars, call, concVars>>

\* progress 0.8, then analyze_accessibility
ValAccessibility ==
    /\ jpc = "clearances"
    /\ progress' = UpdateJobProgress(progress, 80)
    /\ accessibility_results' \in AnalyzeAccessibility(furniture_geometries,
                                                       job.floor_plan)
    /\ jpc' = "accessibility"
    /\ UNCHANGED <<job, catalog, variants, result, published>>
    /\ UNCHANGED <<furniture_geometries, collision_results, clearance_results,
                   heatmap_data>>
    /\ UNCHANGED <<solverVars, call, concVars>>

\* progress 0.9, then generate_navigation_heatmap
ValHeatmap ==
    /\ jpc = "accessibility"
    /\ progress' = UpdateJobProgress(progress, 90)
    /\ heatmap_data' = GenerateNavigationHeatmap(furniture_geometries, job.floor_plan)
    /\ jpc' = "heatmap"
    /\ UNCHANGED <<job, catalog, variants, result, published>>
    /\ UNCHANGED <<furniture_geometries, collision_results, clearance_results,
                   accessibility_results>>
    /\ UNCHANGED <<solverVars, call, concVars>>

\* progress 1.0, then the report and the ValidationResult
ValReport ==
    /\ jpc = "heatmap"
    /\ IF job.id = NoId
       THEN /\ progress' = ProgressOnFailure(UpdateJobProgress(progress, 100))
            /\ ValFailed
       ELSE /\ progress' = UpdateJobProgress(progress, 100)
            /\ \E overall_score \in CalculateOverallScore(collision_results,
                                        clearance_results, accessibility_results) :
                 result' =
                   [job_id |-> job.id, layout_id |-> job.layout_id,
                    status |-> "completed",
                    validation_report |->
                      [overall_score |-> overall_score,
                       collisions |-> collision_results,
                       clearances |-> clearance_results,
                       accessibility |-> accessibility_results,
                       recommendations |->
                         GenerateRecommendations(collision_results,
                           clearance_results, accessibility_results),
                       total_violations |-> Len(collision_results.violations)
                                              + Len(clearance_results.violations)],
                    heatmap_data |-> heatmap_data,
                    progress |-> 100]
            /\ jpc' = "publish"
    /\ UNCHANGED <<job, catalog, variants, published>>
    /\ UNCHANGED <<solverVars, valVars, call, concVars>>

\* validation_job_handler: nats_client.publish("validation.results", ...)
ValPublish ==
    /\ job.subject = "validation.jobs"
    /\ jpc = "publish"
    /\ published' = Append(published, result)
    /\ jpc' = "done"
    /\ UNCHANGED <<job, progress, catalog, variants, result>>
    /\ UNCHANGED <<solverVars, valVars, call, concVars>>

ValNext ==
    \/ ValDecodeFails \/ ValExcept \/ ValParseRoom \/ ValGeometries \/ ValCollisions
    \/ ValClearances \/ ValAccessibility \/ ValHeatmap \/ ValReport \/ ValPublish

ValSpec == ValInit /\ [][ValNext]_vars

\* C16: every heatmap cell has a value in {-1} \cup [0, 1], and a cell is
\* -1 exactly when its sample point lies outside the room polygon; points
\* inside the room or on its boundary never get -1.
C16_HeatmapCells ==
    heatmap_data # NoReport =>
      \A i \in 0 .. heatmap_data.height - 1 : \A j \in 0 .. heatmap_data.width - 1 :
         LET v == heatmap_data.grid[i][j]
             x == job.floor_plan.min_x + j * 200
             y == job.floor_plan.min_y + i * 200
             outside == \/ x < job.floor_plan.min_x \/ x > job.floor_plan.max_x
                        \/ y < job.floor_plan.min_y \/ y > job.floor_plan.max_y
         IN  /\ v = -1 \/ (0 <= v /\ v <= 1000)
             /\ v = -1 <=> outside

\* C17: check_collisions reports a pair exactly when the two footprints
\* overlap with positive area (touching is no collision), with severity high
\* when the overlap exceeds 0.1 m2 and medium otherwise; total_collisions is
\* the number of overlapping pairs.
C17_CollisionIffOverlap ==
    collision_results # NoReport =>
      LET g == furniture_geometries
          overlapping == {pr \in (1 .. Len(g)) \X (1 .. Len(g)) :
                            /\ pr[1] < pr[2]
                            /\ IntersectionArea(g[pr[1]].geometry, g[pr[2]].geometry) > 0}
          reported == {<<c.furniture_1, c.furniture_2>> :
                         c \in {collision_results.collision_pairs[k] :
                                  k \in 1 .. Len(collision_results.collision_pairs)}}
      IN  /\ reported = {<<g[pr[1]].id, g[pr[2]].id>> : pr \in overlapping}
          /\ collision_results.total_collisions = Cardinality(overlapping)
          /\ \A k \in 1 .. Len(collision_results.collision_pairs) :
                LET c == collision_results.collision_pairs[k]
                IN  c.severity = IF c.overlap_area > 100000 THEN "high" ELSE "medium"

\* C18: a door counts as blocked exactly when the centroid of some placement
\* is within 0.8 m of the door point.
C18_DoorBlockedByCentroid ==
    accessibility_results # NoReport =>
      \A d \in 1 .. Len(job.floor_plan.doors) :
         LET door == job.floor_plan.doors[d]
             CentroidNear(g) ==
               LET dx2 == 2 * door.x - (g.x1 + g.x2)
                   dy2 == 2 * door.y - (g.y1 + g.y2)
               IN  dx2 * dx2 + dy2 * dy2 < 1600 * 1600
         IN  accessibility_results.door_access_scores[d] = 0
               <=> \E k \in 1 .. Len(furniture_geometries) :
                      CentroidNear(furniture_geometries[k].geometry)

\* a placement with x, y, rotation or a dimension missing or not a number
Malformed(pl) ==
    \E key \in {"x", "y", "rotation", "width", "depth"} :
       key \notin DOMAIN pl \/ pl[key] = NotANumber

\* the result comes from the job's own steps: it ran to the end, or
\* create_furniture_geometries raised
DecidedByInput ==
    Len(progress) = 7 \/ (progress = <<10, 20>> /\ furniture_geometries = <<>>)

\* C20: a layout with a malformed placement ends with status completed; the
\* malformed placement is skipped and recorded in the report's violations,
\* the other placements are validated.
C20_MalformedPlacementSkipped ==
    (job.subject = "validation.jobs" /\ result # NoResult /\ DecidedByInput) =>
      \A k \in 1 .. Len(job.layout.placements) :
         LET pl == job.layout.placements[k]
             InGeometries(id) == \E n \in 1 .. Len(furniture_geometries) :
                                    furniture_geometries[n].id = id
         IN  (\E m \in 1 .. Len(job.layout.placements) :
                 Malformed(job.layout.placements[m])) =>
               /\ result.status = "completed"
               /\ IF Malformed(pl)
                  THEN /\ ~InGeometries(pl.furniture_id)
                       /\ \E n \in 1 .. Len(collision_results.violations) :
                             collision_results.violations[n].name
                               \in {pl.furniture_id, pl.furniture_name}
                  ELSE InGeometries(pl.furniture_id)

(***************************************************************************)
(* One job of either worker, from the record consumed to the handler's     *)
(* return.                                                                 *)
(***************************************************************************)
WorkerInit == JobInit \/ ValInit
WorkerNext == JobNext \/ ValNext
WorkerSpec == WorkerInit /\ [][WorkerNext]_vars

\* C12: the progress values appended to the stream of a job are
\* non-decreasing and each lies in [0, 1], on the successful path and on
\* every path on which a step raises.
C12_ProgressMonotone ==
    /\ \A k \in 1 .. Len(progress) : 0 <= progress[k] /\ progress[k] <= 100
    /\ \A k \in 1 .. Len(progress) - 1 : progress[k] <= progress[k + 1]

\* a validation job that failed part-way through, after three progress
\* records
C12_Witness ==
    /\ job.subject = "validation.jobs"
    /\ result # NoResult /\ result.status = "failed"
    /\ progress = <<10, 20, 40>>

\* C13: every job record consumed leads to exactly one published record,
\* which carries the job's id and the status completed or failed; stated
\* at the handler's return, after which nothing more is published.
C13_ExactlyOnePublished ==
    jpc = "done" =>
      /\ Len(published) = 1
      /\ published[1].job_id = job.id
      /\ published[1].status \in {"completed", "failed"}

(***************************************************************************)
(* Calls of pure functions on inputs drawn from bounded sets.              *)
(***************************************************************************)
MaxCollisions == 6
MaxIssues == 11
NoRet == -1
BaseScores == {0, 1, 5, 125, 333, 500, 835, 999, 1000}

OverallScoreCalls ==
    [fn : {"calculate_overall_score"}, total_collisions : 0 .. MaxCollisions,
     total_issues : 0 .. MaxIssues, base_score : BaseScores, ret : {NoRet}]

CallInit ==
    /\ call \in OverallScoreCalls
    /\ SolverIdle /\ JobIdle /\ ValIdle /\ ConcIdle

ApplyOverallScore ==
    /\ call.fn = "calculate_overall_score"
    /\ call.ret = NoRet
    /\ \E v \in OverallScore(call.total_collisions, call.total_issues, call.base_score) :
          call' = [call EXCEPT !.ret = v]
    /\ UNCHANGED <<solverVars, jobVars, valVars, concVars>>

CallNext == ApplyOverallScore

CallSpec == CallInit /\ [][CallNext]_vars

\* C15: calculate_overall_score returns
\* base * (1 - min(1, 0.2 n_collisions)) * (1 - min(1, 0.1 n_issues)) rounded
\* to 3 decimals (within half a thousandth of it), and the return lies in
\* [0, 1].
C15_OverallScore ==
    (call.fn = "calculate_overall_score" /\ call.ret # NoRet) =>
      LET keep_collisions == IF 2 * call.total_collisions >= 10 THEN 0
                             ELSE 10 - 2 * call.total_collisions
          keep_clearance == IF call.total_issues >= 10 THEN 0
                            ELSE 10 - call.total_issues
          exact == call.base_score * keep_collisions * keep_clearance
      IN  /\ Abs(100 * call.ret - exact) <= 50
          /\ 0 <= call.ret /\ call.ret <= 1000

\* a return with both penalties at work: 0.835 * 0.4 * 0.3 = 0.1002
C15_Witness ==
    /\ call.fn = "calculate_overall_score" /\ call.ret # NoRet
    /\ call.total_collisions = 3 /\ call.total_issues = 7
    /\ call.base_score = 835 /\ call.ret = 100

(***************************************************************************)
(* Two jobs in one worker process.  layout_job_handler and                 *)
(* validation_job_handler are coroutines: each handler keeps job_data and  *)
(* every intermediate value in its own locals and suspends at each await.  *)
(* What the handlers of a process share is redis_client and nats_client,   *)
(* that is the streams job_progress:<job_id> and the results subject.      *)
(* A step below is the code a handler runs from one await to the next.     *)
(***************************************************************************)
Handlers == {1, 2}

ConcIds == {"job1", "job2", NoId}

ConcLayoutJobs ==
    [subject : {"layout.jobs"}, id : ConcIds, json_ok : {TRUE},
     floor_plan : [area_sqm : {DefaultAreaSqm}],
     style_prefs : {{}}, budget_cents : {NoBudget, 100000}]

ConcValLayouts == {<<PlacementA, PlacementB>>, <<PlacementH, PlacementE>>}

ConcValidationJobs ==
    [subject : {"validation.jobs"}, id : ConcIds, layout_id : {"layout1"},
     json_ok : {TRUE},
     floor_plan : {RoomOf(ValRoomMm, ValRoomMm, <<>>, <<[x |-> 0, y |-> 0]>>,
                          <<[x |-> ValRoomMm, y |-> ValRoomMm]>>,
                          DefaultDoorClearanceCm)},
     layout : [placements : ConcValLayouts]]

\* the locals of a handler that has just been called with its message;
\* emitted is the history of the progress values the handler has sent
HandlerLocals(j) ==
    [job |-> j, hpc |-> "received", emitted |-> <<>>,
     catalog |-> <<>>, variants |-> <<>>,
     furniture_geometries |-> <<>>, collision_results |-> NoReport,
     clearance_results |-> NoReport, accessibility_results |-> NoReport,
     heatmap_data |-> NoReport, result |-> NoResult]

\* a worker process subscribes to one subject: both jobs are of one kind.
\* The two handlers are interchangeable, so the first job is one with id
\* "job1"; the second carries the same id, another id or none.
ConcInit ==
    /\ \E j1, j2 \in ConcLayoutJobs \cup ConcValidationJobs :
         /\ j1.subject = j2.subject
         /\ j1.id = "job1"
         /\ handlers = [h \in Handlers |-> HandlerLocals(IF h = 1 THEN j1 ELSE j2)]
    /\ streams = [key \in ConcIds |-> <<>>]
    /\ outbox = <<>>
    /\ SolverIdle /\ JobIdle /\ ValIdle /\ call = NoCall

\* progress_data of update_job_progress, with the handler that sent it
ProgressData(job_id, pct, h) == [job_id |-> job_id, progress |-> pct, emitter |-> h]

\* a progress writer whose stream key does not depend on the job
XAddOneStream(strs, key, data) == [strs EXCEPT !["job1"] = Append(@, data)]

\* redis_client.xadd(f"job_progress:{job_id}", progress_data)
XAdd(strs, key, data) == [strs EXCEPT ![key] = Append(@, data)]

\* update_job_progress called by handler h with its own job_id
Emit(h, pct) ==
    streams' = XAdd(streams, handlers[h].job.id,
                    ProgressData(handlers[h].job.id, pct, h))

\* the except branch of generate_layouts or validate_layout in handler h
HFailed(h, l) ==
    IF l.job.id = NoId
    THEN [l EXCEPT !.hpc = "done"]
    ELSE [l EXCEPT !.hpc = "publish",
                   !.result = IF l.job.subject = "layout.jobs"
                              THEN FailedLayoutResult(l.job)
                              ELSE FailedValidationResult(l.job)]

\* update_job_progress raises (Redis) at a step of the try block
HExcept(h) ==
    /\ handlers[h].hpc \in {"received", "geometry", "catalog", "build", "solve",
                            "post", "parsed", "geometries", "collisions",
                            "clearances", "accessibility", "heatmap"}
    /\ handlers' = [handlers EXCEPT ![h] = HFailed(h, @)]
    /\ UNCHANGED <<streams, outbox>>
    /\ UNCHANGED <<solverVars, jobVars, valVars, call>>

HInitialise(h) ==
    /\ handlers[h].job.subject = "layout.jobs"
    /\ handlers[h].hpc = "received"
    /\ Emit(h, 10)
    /\ handlers' = [handlers EXCEPT ![h].hpc = "geometry",
                                    ![h].emitted = Append(@, 10)]
    /\ UNCHANGED outbox
    /\ UNCHANGED <<solverVars, jobVars, valVars, call>>

HAnalyseGeometry(h) ==
    /\ handlers[h].hpc = "geometry"
    /\ Emit(h, 20)
    /\ handlers' = [handlers EXCEPT ![h].hpc = "catalog",
                                    ![h].emitted = Append(@, 20)]
    /\ UNCHANGED outbox
    /\ UNCHANGED <<solverVars, jobVars, valVars, call>>

HCatalog(h) ==
    /\ handlers[h].hpc = "catalog"
    /\ Emit(h, 30)
    /\ handlers' =
         [handlers EXCEPT
            ![h].catalog = GenerateFurnitureCatalog(handlers[h].job.floor_plan,
                              handlers[h].job.style_prefs,
                              handlers[h].job.budget_cents),
            ![h].hpc = "build",
            ![h].emitted = Append(@, 30)]
    /\ UNCHANGED outbox
    /\ UNCHANGED <<solverVars, jobVars, valVars, call>>

HBuildModel(h) ==
    /\ handlers[h].hpc = "build"
    /\ Emit(h, 50)
    /\ handlers' = [handlers EXCEPT ![h].hpc = "solve",
                                    ![h].emitted = Append(@, 50)]
    /\ UNCHANGED outbox
    /\ UNCHANGED <<solverVars, jobVars, valVars, call>>

HSolve(h) ==
    /\ handlers[h].hpc = "solve"
    /\ Emit(h, 80)
    /\ handlers' =
         [handlers EXCEPT
            ![h].variants = SolveLayoutVariants(handlers[h].catalog, NumVariants),
            ![h].hpc = "post",
            ![h].emitted = Append(@, 80)]
    /\ UNCHANGED outbox
    /\ UNCHANGED <<solverVars, jobVars, valVars, call>>

HPostProcess(h) ==
    /\ handlers[h].hpc = "post"
    /\ Emit(h, 100)
    /\ LET l == [handlers[h] EXCEPT !.emitted = Append(@, 100)] IN
       handlers' =
         [handlers EXCEPT
            ![h] = IF l.job.id = NoId
                   THEN HFailed(h, l)
                   ELSE [l EXCEPT
                           !.result =
                              [job_id |-> l.job.id, status |-> "completed",
                               layouts |-> PostProcessAll(l.variants, l.catalog,
                                             l.job.floor_plan, l.job.id),
                               progress |-> 100],
                           !.hpc = "publish"]]
    /\ UNCHANGED outbox
    /\ UNCHANGED <<solverVars, jobVars, valVars, call>>

\* nats_client.publish("layout.results" or "validation.results", result)
HPublish(h) ==
    /\ handlers[h].hpc = "publish"
    /\ outbox' = Append(outbox, [emitter |-> h, data |-> handlers[h].result])
    /\ handlers' = [handlers EXCEPT ![h].hpc = "done"]
    /\ UNCHANGED streams
    /\ UNCHANGED <<solverVars, jobVars, valVars, call>>

HParseRoom(h) ==
    /\ handlers[h].job.subject = "validation.jobs"
    /\ handlers[h].hpc = "received"
    /\ Emit(h, 10)
    /\ handlers' = [handlers EXCEPT ![h].hpc = "parsed",
                                    ![h].emitted = Append(@, 10)]
    /\ UNCHANGED outbox
    /\ UNCHANGED <<solverVars, jobVars, valVars, call>>

HGeometries(h) ==
    /\ handlers[h].hpc = "parsed"
    /\ Emit(h, 20)
    /\ LET l == [handlers[h] EXCEPT !.emitted = Append(@, 20)] IN
       handlers' =
         [handlers EXCEPT
            ![h] = IF \E k \in 1 .. Len(l.job.layout.placements) :
                         RaisesTypeError(l.job.layout.placements[k])
                   THEN HFailed(h, l)
                   ELSE [l EXCEPT
                           !.furniture_geometries =
                              CreateFurnitureGeometries(l.job.layout.placements),
                           !.hpc = "geometries"]]
    /\ UNCHANGED outbox
    /\ UNCHANGED <<solverVars, jobVars, valVars, call>>

HCollisions(h) ==
    /\ handlers[h].hpc = "geometries"
    /\ Emit(h, 40)
    /\ handlers' =
         [handlers EXCEPT
            ![h].collision_results =
               CheckCollisions(handlers[h].furniture_geometries,
                               handlers[h].job.floor_plan),
            ![h].hpc = "collisions",
            ![h].emitted = Append(@, 40)]
    /\ UNCHANGED outbox
    /\ UNCHANGED <<solverVars, jobVars, valVars, call>>

HClearances(h) ==
    /\ handlers[h].hpc = "collisions"
    /\ Emit(h, 60)
    /\ handlers' =
         [handlers EXCEPT
            ![h].clearance_results =
               ValidateClearances(handlers[h].furniture_geometries,
                                  handlers[h].job.floor_plan,
                                  DefaultMinDoorClearanceMm),
            ![h].hpc = "clearances",
            ![h].emitted = Append(@, 60)]
    /\ UNCHANGED outbox
    /\ UNCHANGED <<solverVars, jobVars, valVars, call>>

HAccessibility(h) ==
    /\ handlers[h].hpc = "clearances"
    /\ Emit(h, 80)
    /\ \E acc \in AnalyzeAccessibility(handlers[h].furniture_geometries,
                                       handlers[h].job.floor_plan) :
         handlers' = [handlers EXCEPT ![h].accessibility_results = acc,
                                      ![h].hpc = "accessibility",
                                      ![h].emitted = Append(@, 80)]
    /\ UNCHANGED outbox
    /\ UNCHANGED <<solverVars, jobVars, valVars, call>>

HHeatmap(h) ==
    /\ handlers[h].hpc = "accessibility"
    /\ Emit(h, 90)
    /\ handlers' =
         [handlers EXCEPT
            ![h].heatmap_data =
               GenerateNavigationHeatmap(handlers[h].furniture_geometries,
                                         handlers[h].job.floor_plan),
            ![h].hpc = "heatmap",
            ![h].emitted = Append(@, 90)]
    /\ UNCHANGED outbox
    /\ UNCHANGED <<solverVars, jobVars, valVars, call>>

\* the validation_report and ValidationResult built from the locals l
ValidationResultOf(l, overall_score) ==
    [job_id |-> l.job.id, layout_id |-> l.job.layout_id,
     status |-> "completed",
     validation_report |->
       [overall_score |-> overall_score,
        collisions |-> l.collision_results,
        clearances |-> l.clearance_results,
        accessibility |-> l.accessibility_results,
        recommendations |->
          GenerateRecommendations(l.collision_results, l.clearance_results,
                                  l.accessibility_results),
        total_violations |-> Len(l.collision_results.violations)
                               + Len(l.clearance_results.violations)],
     heatmap_data |-> l.heatmap_data,
     progress |-> 100]

HReport(h) ==
    /\ handlers[h].hpc = "heatmap"
    /\ Emit(h, 100)
    /\ LET l == [handlers[h] EXCEPT !.emitted = Append(@, 100)] IN
       IF l.job.id = NoId
       THEN handlers' = [handlers EXCEPT ![h] = HFailed(h, l)]
       ELSE \E overall_score \in CalculateOverallScore(l.collision_results,
                                    l.clearance_results, l.accessibility_results) :
              handlers' =
                [handlers EXCEPT
                   ![h] = [l EXCEPT !.result = ValidationResultOf(l, overall_score),
                                    !.hpc = "publish"]]
    /\ UNCHANGED outbox
    /\ UNCHANGED <<solverVars, jobVars, valVars, call>>

ConcNext ==
    \E h \in Handlers :
       \/ HExcept(h) \/ HInitialise(h) \/ HAnalyseGeometry(h) \/ HCatalog(h)
       \/ HBuildModel(h) \/ HSolve(h) \/ HPostProcess(h) \/ HPublish(h)
       \/ HParseRoom(h) \/ HGeometries(h) \/ HCollisions(h) \/ HClearances(h)
       \/ HAccessibility(h) \/ HHeatmap(h) \/ HReport(h)

ConcSpec == ConcInit /\ [][ConcNext]_vars

\* the records of stream key that handler h sent, as progress values
SentBy(h, key) ==
    LET ByH(r) == r.emitter = h
        own == SelectSeq(streams[key], ByH)
    IN  [k \in 1 .. Len(own) |-> own[k].progress]

\* every record is in the stream of the job that sent it, and nothing a
\* handler sent is lost or overwritten
OwnRecordsOnly ==
    \A h \in Handlers : \A key \in ConcIds :
       SentBy(h, key) = IF key = handlers[h].job.id THEN handlers[h].emitted
                        ELSE <<>>

StreamsMonotone ==
    \A key \in ConcIds : \A k \in 1 .. Len(streams[key]) - 1 :
       streams[key][k].progress <= streams[key][k + 1].progress

\* what a completed result must be, computed from the job j alone
OwnResult(j, data) ==
    IF j.subject = "layout.jobs"
    THEN LET cat == GenerateFurnitureCatalog(j.floor_plan, j.style_prefs,
                                             j.budget_cents)
         IN  data.layouts =
               PostProcessAll(SolveLayoutVariants(cat, NumVariants), cat,
                              j.floor_plan, j.id)
    ELSE LET fg == CreateFurnitureGeometries(j.layout.placements)
             rep == data.validation_report
         IN  /\ data.layout_id = j.layout_id
             /\ rep.collisions = CheckCollisions(fg, j.floor_plan)
             /\ rep.clearances = ValidateClearances(fg, j.floor_plan,
                                                    DefaultMinDoorClearanceMm)
             /\ rep.accessibility \in AnalyzeAccessibility(fg, j.floor_plan)
             /\ rep.overall_score \in
                  CalculateOverallScore(rep.collisions, rep.clearances,
                                        rep.accessibility)
             /\ data.heatmap_data = GenerateNavigationHeatmap(fg, j.floor_plan)

OwnResultsOnly ==
    \A k \in 1 .. Len(outbox) :
       LET j == handlers[outbox[k].emitter].job
           data == outbox[k].data
       IN  /\ data.job_id = j.id
           /\ data.status = "completed" => OwnResult(j, data)

\* C14: under any interleaving of two jobs handled by one worker process,
\* each progress record is in the stream of the job that sent it only, each
\* job's stream is non-decreasing, and each published result carries the id
\* and the layouts or report computed from its own job's input.
C14_JobsIsolated == OwnRecordsOnly /\ StreamsMonotone /\ OwnResultsOnly

\* C14 (amended): the same for two jobs that carry different ids (a job
\* without an id counts as carrying the id None).
C14_DistinctIdsIsolated ==
    handlers[1].job.id # handlers[2].job.id => C14_JobsIsolated

\* both handlers are between awaits, each has sent records to its own
\* stream, and one of them has published a completed result
C14_Witness ==
    /\ handlers[1].job.id # handlers[2].job.id
    /\ Len(streams[handlers[1].job.id]) >= 3
    /\ Len(streams[handlers[2].job.id]) >= 3
    /\ handlers[1].hpc = "done" /\ handlers[2].hpc # "done"
    /\ Len(outbox) = 1 /\ outbox[1].data.status = "completed"
    /\ handlers[1].job # [handlers[2].job EXCEPT !.id = handlers[1].job.id]

(***************************************************************************)
(* Error handling of the layout job.                                       *)
(***************************************************************************)
\* C21: a layout job whose catalog is empty after filtering (like a job
\* whose floor plan is missing, ill-formed or of zero area) ends with
\* status 'failed' and a non-empty error message, never with 'completed'.
C21_EmptyCatalogFails ==
    (job.subject = "layout.jobs" /\ result # NoResult /\ catalog = <<>>
       /\ Len(progress) >= 3) =>
      (result.status = "failed" /\ result.error # "")

(***************************************************************************)
(* Scenario S1: a 5.0 m x 4.0 m room without doors or windows and the      *)
(* single item sofa_3seat of the base catalog.                             *)
(***************************************************************************)
\* sofa_3seat of base_catalog as a FurnitureItem: 228 x 95 x 83 cm, its
\* clearances have no 'all' key
Sofa3Seat ==
    [id |-> BaseCatalog[1].id, name |-> BaseCatalog[1].name,
     width_cm |-> BaseCatalog[1].width_cm, depth_cm |-> BaseCatalog[1].depth_cm,
     height_cm |-> 83, clearance_all |-> NoAll,
     price_cents |-> BaseCatalog[1].price_cents]

S1Init ==
    /\ room = RoomOf(5000, 4000, <<>>, <<>>, <<>>, DefaultDoorClearanceCm)
    /\ items = <<Sofa3Seat>>
    /\ objectives \in Strategies
    /\ pc = "ready"
    /\ status = "none"
    /\ value = NoValue
    /\ solutions = <<>>
    /\ report = NoReport
    /\ JobIdle /\ ValIdle /\ call = NoCall /\ ConcIdle

S1Spec == S1Init /\ [][Next]_vars

\* C22: in scenario S1 every solution solve_layout can return holds exactly
\* one placement, with x_cm in [0, 272], y_cm in [0, 305] and a rotation in
\* {0, 90, 180, 270}.
C22_ScenarioS1 ==
    Returned =>
      /\ Len(solutions) = 1
      /\ \A k \in 1 .. Len(solutions) :
            /\ 0 <= solutions[k].x_cm /\ solutions[k].x_cm <= 272
            /\ 0 <= solutions[k].y_cm /\ solutions[k].y_cm <= 305
            /\ solutions[k].rotation_deg \in {0, 90, 180, 270}

(***************************************************************************)
(* Functional pairs: solve_layout on the item pairs that                   *)
(* _add_functional_constraints relates, in a long room without doors.      *)
(***************************************************************************)
SmallSofa ==
    [id |-> "sofa_3seat", name |-> "3-Seat Sofa", width_cm |-> MaxItemWidthCm - 1,
     depth_cm |-> MaxItemDepthCm - 1, height_cm |-> 83, clearance_all |-> 2,
     price_cents |-> 79900]
Desk ==
    [id |-> "desk", name |-> "Desk", width_cm |-> MaxItemWidthCm - 1,
     depth_cm |-> MaxItemDepthCm - 1, height_cm |-> 75, clearance_all |-> 2,
     price_cents |-> 45999]
OfficeChair ==
    [id |-> "office_chair", name |-> "Office Chair", width_cm |-> MaxItemWidthCm - 3,
     depth_cm |-> MaxItemDepthCm - 1, height_cm |-> 110, clearance_all |-> 2,
     price_cents |-> 25999]
TvStand ==
    [id |-> "tv_stand", name |-> "TV Stand", width_cm |-> MaxItemWidthCm - 1,
     depth_cm |-> MaxItemDepthCm - 1, height_cm |-> 50, clearance_all |-> 2,
     price_cents |-> 34999]

PairLists == {<<Desk, OfficeChair>>, <<SmallSofa, CoffeeTable>>, <<TvStand, SmallSofa>>}

PairInit ==
    /\ room = RoomOf(LongRoomWidthMm, RoomHeightMm, <<>>, <<>>, <<>>,
                     DefaultDoorClearanceCm)
    /\ items \in PairLists
    /\ objectives \in Strategies
    /\ pc = "ready"
    /\ status = "none"
    /\ value = NoValue
    /\ solutions = <<>>
    /\ report = NoReport
    /\ JobIdle /\ ValIdle /\ call = NoCall /\ ConcIdle

PairSpec == PairInit /\ [][Next]_vars

\* the returned placement of the item whose name holds the word w
PlacedWith(w) ==
    {k \in 1 .. Len(solutions) :
        w \in NameWords(ItemById(items, solutions[k].furniture_id).name)}

\* the gap between the sofa's forward edge and the table's near edge, in
\* the direction the sofa's rotation gives (0 up, 90 right, 180 down, 270
\* left), and whether the table is across that edge
TableGapCm(s, t, rotation_deg) ==
    CASE rotation_deg = 0   -> s.y1 - t.y2
      [] rotation_deg = 90  -> t.x1 - s.x2
      [] rotation_deg = 180 -> t.y1 - s.y2
      [] OTHER              -> s.x1 - t.x2
TableAcross(s, t, rotation_deg) ==
    IF rotation_deg \in {0, 180}
    THEN s.x1 < t.x2 /\ t.x1 < s.x2
    ELSE s.y1 < t.y2 /\ t.y1 < s.y2

\* C23: whenever a sofa and a coffee table are both placed, the coffee table
\* lies in front of the sofa (direction given by the sofa's rotation) with
\* its near edge 50 cm +/- 20 cm from the sofa's forward edge.
C23_TableInFrontOfSofa ==
    Returned =>
      \A i \in PlacedWith("sofa") : \A j \in PlacedWith("coffee") :
         LET s == SolverFootprint(items, solutions[i])
             t == SolverFootprint(items, solutions[j])
             rotation_deg == solutions[i].rotation_deg
         IN  /\ TableAcross(s, t, rotation_deg)
             /\ 30 <= TableGapCm(s, t, rotation_deg)
             /\ TableGapCm(s, t, rotation_deg) <= 70

\* C25: whenever a desk and a chair are both placed, the Manhattan distance
\* between their placement corners is between 60 cm and 80 cm inclusive.
C25_DeskChairDistance ==
    Returned =>
      \A i \in PlacedWith("desk") : \A j \in PlacedWith("chair") :
         LET d == Manhattan(solutions[i].x_cm, solutions[i].y_cm,
                            solutions[j].x_cm, solutions[j].y_cm)
         IN  60 <= d /\ d <= 80

\* the model without _add_functional_constraints: boundary, non-overlap,
\* clearance, door and window constraints only
RECURSIVE HardFeasible(_, _, _, _)
HardFeasible(r, its, objs, k) ==
    IF k = 0 THEN {<<>>}
    ELSE LET cand == {v \in PlacedValues(r) :
                        SingleOK(r, its[k], v) /\ CenterOK(r, objs, v)}
                     \cup {v \in UnplacedValues(r) : UnplacedOK(r, its[k], objs)}
         IN  {Append(a, v) : <<a, v>> \in
                {p \in HardFeasible(r, its, objs, k - 1) \X cand :
                    \A i \in 1 .. k - 1 :
                       /\ CollisionOK(its[i], p[1][i], its[k], p[2])
                       /\ ClearanceOK(its[i], p[1][i], its[k], p[2])}}

\* C26: the functional-pair rules are soft: every assignment that satisfies
\* the boundary, non-overlap, clearance, door and window constraints is
\* accepted by the model, so a pair rule never makes the solver leave out
\* an item that would fit.
C26_PairRulesSoft ==
    pc # "ready" =>
      HardFeasible(room, items, objectives, Len(items))
        \subseteq Feasible(room, items, objectives, Len(items))

(***************************************************************************)
(* The objective of solve_layout on pairs of feasible assignments.         *)
(***************************************************************************)
ObjInit ==
    /\ room = RoomOf(SmallRoomWidthMm, RoomHeightMm, <<>>, <<>>, <<>>,
                     DefaultDoorClearanceCm)
    /\ items \in {<<SideTable>>, <<SideTable, CoffeeTable>>}
    /\ objectives \in Strategies
    /\ pc = "idle" /\ status = "none" /\ value = NoValue
    /\ solutions = <<>> /\ report = NoReport
    /\ JobIdle /\ ValIdle /\ call = NoCall /\ ConcIdle

\* the expression given to Maximize, evaluated on two assignments a and b
\* that satisfy the model
CompareObjectives ==
    /\ call = NoCall
    /\ \E a, b \in Feasible(room, items, objectives, Len(items)) :
          call' = [fn |-> "objective", a |-> a, b |-> b,
                   objective_a |-> Objective(room, items, objectives, a),
                   objective_b |-> Objective(room, items, objectives, b)]
    /\ UNCHANGED <<solverVars, jobVars, valVars, concVars>>

ObjNext == CompareObjectives

ObjSpec == ObjInit /\ [][ObjNext]_vars

\* the three terms of the documented objective for the assignment a
CoverageTerm(a) ==
    LET F[k \in 0 .. Len(a)] == IF k = 0 THEN 0 ELSE F[k - 1] + a[k].placed
    IN  F[Len(a)]
PriceTerm(its, a) ==
    LET F[k \in 0 .. Len(a)] ==
          IF k = 0 THEN 0 ELSE F[k - 1] + a[k].placed * its[k].price_cents
    IN  F[Len(a)]
FlowTerm(r, a) ==
    LET F[k \in 0 .. Len(a)] ==
          IF k = 0 THEN 0
          ELSE F[k - 1] + a[k].placed
                 * Manhattan(a[k].x, a[k].y, RoomCenterX(r), RoomCenterY(r))
    IN  F[Len(a)]

\* sum(placed) wc + sum(placed (-price_cents)) wb + sum(placed dist) wf, the
\* weights in tenths
WeightedSum(r, its, objs, a) ==
    CoverageTerm(a) * objs.placement_coverage
      - PriceTerm(its, a) * objs.budget_optimization
      + FlowTerm(r, a) * objs.flow_optimization

\* C24: the objective solve_layout maximizes orders two feasible assignments
\* exactly as the weighted sum of coverage, negated price and flow does for
\* each strategy row; between two assignments equal in coverage and flow
\* the one of lower total price is preferred.
C24_ObjectiveIsWeightedSum ==
    call.fn = "objective" =>
      /\ (call.objective_a <= call.objective_b)
           <=> (WeightedSum(room, items, objectives, call.a)
                  <= WeightedSum(room, items, objectives, call.b))
      /\ (/\ CoverageTerm(call.a) = CoverageTerm(call.b)
          /\ FlowTerm(room, call.a) = FlowTerm(room, call.b)
          /\ PriceTerm(items, call.a) < PriceTerm(items, call.b))
           => call.objective_a > call.objective_b

(***************************************************************************)
(* Scorer: flow_score of the layouts of a completed layout job.            *)
(***************************************************************************)
\* the placements of a layout without the one at position k
Without(placements, k) ==
    [i \in 1 .. Len(placements) - 1 |->
        IF i < k THEN placements[i] ELSE placements[i + 1]]

\* C27: deleting one item from a layout raises the flow_score of the
\* layout's metrics by no more than 0.05, and flow_score is in [0, 1].
C27_FlowScoreMonotone ==
    (result # NoResult /\ result.status = "completed") =>
      \A i \in 1 .. Len(result.layouts) :
         LET layout == result.layouts[i] IN
         /\ 0 <= layout.flow_score /\ layout.flow_score <= 1000
         /\ \A k \in 1 .. Len(layout.placements) :
               CalculateFlowScore(Without(layout.placements, k), job.floor_plan)
                 <= layout.flow_score + 50

\* a completed job with a layout of at least two placements
C27_Witness ==
    /\ result # NoResult /\ result.status = "completed"
    /\ \E i \in 1 .. Len(result.layouts) : Len(result.layouts[i].placements) >= 2

(***************************************************************************)
(* Rooms away from the origin: the same room with its bounds, walls,       *)
(* doors and windows moved by one offset.                                  *)
(***************************************************************************)
NearShiftMm == 100
FarShiftMm == 30000

ShiftOffsets == {0, NearShiftMm, FarShiftMm}

ShiftPoint(pt, dx, dy) == [x |-> pt.x + dx, y |-> pt.y + dy]

ShiftRoom(r, dx, dy) ==
    [r EXCEPT
       !.min_x = @ + dx, !.max_x = @ + dx, !.min_y = @ + dy, !.max_y = @ + dy,
       !.walls = [k \in 1 .. Len(r.walls) |->
                    [r.walls[k] EXCEPT !.x1 = @ + dx, !.x2 = @ + dx,
                                       !.y1 = @ + dy, !.y2 = @ + dy]],
       !.doors = [k \in 1 .. Len(r.doors) |-> ShiftPoint(r.doors[k], dx, dy)],
       !.windows = [k \in 1 .. Len(r.windows) |-> ShiftPoint(r.windows[k], dx, dy)]]

ShiftBases ==
    {RoomOf(SmallRoomWidthMm, RoomHeightMm, <<>>, <<CornerDoor>>, <<WindowAt>>, 4),
     RoomOf(SmallRoomWidthMm, RoomHeightMm, <<>>, <<>>, <<>>, DefaultDoorClearanceCm)}

ShiftInit ==
    /\ room \in {ShiftRoom(base, d, d) : base \in ShiftBases, d \in ShiftOffsets}
    /\ items \in {<<SideTable>>, <<CoffeeTable, Armchair>>, <<Bookshelf>>}
    /\ objectives \in Strategies
    /\ pc = "ready"
    /\ status = "none"
    /\ value = NoValue
    /\ solutions = <<>>
    /\ report = NoReport
    /\ JobIdle /\ ValIdle /\ call = NoCall /\ ConcIdle

ShiftSpec == ShiftInit /\ [][Next]_vars

\* C28: for a room whose grid has at least one cell in each direction the
\* model is satisfied by the assignment that places no item, so the solver
\* never reports INFEASIBLE.
C28_NeverInfeasible ==
    (pc # "ready" /\ GridWidth(room) >= 1 /\ GridHeight(room) >= 1) =>
      status # "INFEASIBLE"

\* the placement lists solve_layout can return for a room
Returns(r, its, objs) ==
    {SolveLayoutResult(its, o) :
        o \in {oc \in SolveOutcomes(r, its, objs) :
                  oc.status \in {"OPTIMAL", "FEASIBLE"}}}

\* C29: moving the whole room (bounds, door and window positions) by one
\* offset leaves the set of placement lists solve_layout can return
\* unchanged.
C29_TranslationInvariant ==
    Returned =>
      \A d \in ShiftOffsets :
         solutions \in Returns(ShiftRoom(room, d - room.min_x, d - room.min_y),
                               items, objectives)

(***************************************************************************)
(* Placements outside the room and the boundary recommendation.            *)
(***************************************************************************)

\* the completed report covers a placement whose rectangle is not contained
\* in the room polygon
OutsideReported ==
    /\ job.subject = "validation.jobs"
    /\ result # NoResult
    /\ result.status = "completed"
    /\ \E k \in 1 .. Len(furniture_geometries) :
          ~Contains(RoomPolygon(job.floor_plan), furniture_geometries[k].geometry)

\* C30: when some placement is not fully contained in the room polygon,
\* partly or completely outside, the report counts it in
\* collisions.boundary_violations (so the count is positive) and carries the
\* recommendation to fit all furniture within the room boundaries
C30_OutsideCounted ==
    OutsideReported =>
      LET rep == result.validation_report IN
        /\ rep.collisions.boundary_violations > 0
        /\ \E k \in 1 .. Len(rep.recommendations) :
              rep.recommendations[k] = "Ensure all furniture fits within room boundaries"

====
